---- MODULE Spec2Model ----
(***************************************************************************)
(* Model of the Switch Studio front end: the zones module                  *)
(* (window.SwitchStudioZones: the geometry normalizer/validator/payload    *)
(* builder, the pending-command tracker and the target history / render    *)
(* coordinator) and the tabs module (window.SwitchStudioTabs) of           *)
(* switch_studio/static/js/app_tabs.js, and the state module               *)
(* (window.SwitchStudioState) of app_state.js.                             *)
(*                                                                         *)
(* Every entry point is one action.  An action records the call it models  *)
(* (arguments, environment answers, return value) in lastCall and the      *)
(* calls it made to its collaborators (status sink, toast, banner, log,    *)
(* chart, table, socket) in emitted; both are overwritten by the next      *)
(* call.                                                                   *)
(***************************************************************************)
EXTENDS Integers, Sequences, FiniteSets, TLC

VARIABLES
    limits,                  \* let limits (axis bounds and minSpan)
    historyLength,           \* let historyLength
    lastCommandId,           \* let lastCommandId: <<>> is null, <<n>> is the number n
    targetHistory,           \* let targetHistory: function from target ids to trails
    targetsSuppressedByGate, \* let targetsSuppressedByGate
    lastCall,                \* the most recent call of an entry point and what it returned
    emitted,                 \* the collaborator calls made by the most recent call
    seen,                    \* history variable: per id, the positions of its current run of frames
    pendingChanges,          \* const pendingChanges: the Map as its entries in insertion order
    latestConfig,            \* const latestConfig: function from the keys set to their values
    inputElements,           \* const inputElements: function from the keys set to the element given
    socket,                  \* let socket: "socket" or "null"
    inputs,                  \* the value shown by the input element of each parameter
    dirtyUi,                 \* the dirty bar, its text and the Apply and Discard buttons
    staged,                  \* history variable: the pending parameters in the order they became pending
    recorded,                \* history variable: per parameter, the value recorded last and the one syncConfig recorded last
    tabButtons,              \* let tabButtons: the button elements, with their classes
    tabPanels,               \* let tabPanels: the panel elements, with their display style
    activeTab,               \* let activeTab: <<>> is null, <<t>> is the tab t
    storage,                 \* localStorage: the value under STORAGE_KEY and whether calls throw
    zoneStatus,              \* zoneStatusEl: its display style, text and background
    hideZoneStatusTimer,     \* let hideZoneStatusTimer: 0 is null, otherwise a timer id
    timers,                  \* the timeouts that are scheduled and neither fired nor cleared
    issued                   \* history variable: the accepted setPendingCommand calls, each with its completion reports

\* The variables of the zones module, of the state module and of the tabs
\* module (lastCall and emitted are shared).
bannerVars == <<zoneStatus, hideZoneStatusTimer, timers>>
zoneVars == <<limits, historyLength, lastCommandId, targetHistory,
              targetsSuppressedByGate, seen, bannerVars, issued>>
stateVars == <<pendingChanges, latestConfig, inputElements, socket, inputs, dirtyUi,
               recorded, staged>>
tabVars == <<tabButtons, tabPanels, activeTab, storage>>

vars == <<limits, historyLength, lastCommandId, targetHistory,
          targetsSuppressedByGate, lastCall, emitted, seen,
          pendingChanges, latestConfig, inputElements, socket, inputs, dirtyUi,
          recorded, staged, tabButtons, tabPanels, activeTab, storage,
          zoneStatus, hideZoneStatusTimer, timers, issued>>

(***************************************************************************)
(* Bounds of the model.                                                    *)
(***************************************************************************)
MaxRaw == 3

Min2(a, b) == IF a <= b THEN a ELSE b
Max2(a, b) == IF a >= b THEN a ELSE b

(***************************************************************************)
(* JavaScript values reaching the numeric coercions.  A value is either    *)
(* one whose Number() is not finite (undefined, NaN, "abc", Infinity) or a *)
(* finite number, kept in halves: twice = 2 * value.                       *)
(***************************************************************************)
NotFinite == [finite |-> FALSE, twice |-> 0]
Num(n) == [finite |-> TRUE, twice |-> 2 * n]
Half(t) == [finite |-> TRUE, twice |-> t]

\* Math.round of the number t / 2: nearest integer, ties towards +Infinity.
MathRoundHalves(t) == (t + 1) \div 2

toRoundedInt(value, fallback) ==
    IF ~value.finite THEN fallback ELSE MathRoundHalves(value.twice)

\* Mutant of clamp: the value is passed through.
clampNone(value, min, max) == value

\* Mutant of clamp: a value beyond a bound is moved to the other bound.
clampToFarBound(value, min, max) ==
    IF value < min THEN max ELSE IF value > max THEN min ELSE value

clamp(value, min, max) == Max2(min, Min2(max, value))

\* Mutant of enforceMinSpan: the centre is rounded down.
enforceMinSpanCentreDown(minVal, maxVal, boundMin, boundMax, minSpan) ==
    IF (maxVal - minVal) >= minSpan
    THEN [minVal |-> minVal, maxVal |-> maxVal]
    ELSE LET center == (minVal + maxVal) \div 2
             min1 == center - (minSpan \div 2)
             max1 == min1 + minSpan
             min2 == IF min1 < boundMin THEN boundMin ELSE min1
             max2 == IF min1 < boundMin THEN boundMin + minSpan ELSE max1
             max3 == IF max2 > boundMax THEN boundMax ELSE max2
             min3 == IF max2 > boundMax THEN boundMax - minSpan ELSE min2
         IN  [minVal |-> min3, maxVal |-> max3]

\* Mutant of enforceMinSpan: a bound that is hit moves one end only.
enforceMinSpanOneEnd(minVal, maxVal, boundMin, boundMax, minSpan) ==
    IF (maxVal - minVal) >= minSpan
    THEN [minVal |-> minVal, maxVal |-> maxVal]
    ELSE LET center == MathRoundHalves(minVal + maxVal)
             min1 == center - (minSpan \div 2)
             max1 == min1 + minSpan
             min2 == IF min1 < boundMin THEN boundMin ELSE min1
             max3 == IF max1 > boundMax THEN boundMax ELSE max1
         IN  [minVal |-> min2, maxVal |-> max3]

\* Mutant of enforceMinSpan: the centre is the sum of the two ends, not
\* their mean.
enforceMinSpanCentreNotHalved(minVal, maxVal, boundMin, boundMax, minSpan) ==
    IF (maxVal - minVal) >= minSpan
    THEN [minVal |-> minVal, maxVal |-> maxVal]
    ELSE LET center == minVal + maxVal
             min1 == center - (minSpan \div 2)
             max1 == min1 + minSpan
             min2 == IF min1 < boundMin THEN boundMin ELSE min1
             max2 == IF min1 < boundMin THEN boundMin + minSpan ELSE max1
             max3 == IF max2 > boundMax THEN boundMax ELSE max2
             min3 == IF max2 > boundMax THEN boundMax - minSpan ELSE min2
         IN  [minVal |-> min3, maxVal |-> max3]

\* Mutant of enforceMinSpan: the widened pair is not shifted into the bounds.
enforceMinSpanWithoutShift(minVal, maxVal, boundMin, boundMax, minSpan) ==
    IF (maxVal - minVal) >= minSpan
    THEN [minVal |-> minVal, maxVal |-> maxVal]
    ELSE LET center == MathRoundHalves(minVal + maxVal)
             min1 == center - (minSpan \div 2)
         IN  [minVal |-> min1, maxVal |-> min1 + minSpan]

enforceMinSpan(minVal, maxVal, boundMin, boundMax, minSpan) ==
    IF (maxVal - minVal) >= minSpan
    THEN [minVal |-> minVal, maxVal |-> maxVal]
    ELSE LET center == MathRoundHalves(minVal + maxVal)
             min1 == center - (minSpan \div 2)
             max1 == min1 + minSpan
             min2 == IF min1 < boundMin THEN boundMin ELSE min1
             max2 == IF min1 < boundMin THEN boundMin + minSpan ELSE max1
             max3 == IF max2 > boundMax THEN boundMax ELSE max2
             min3 == IF max2 > boundMax THEN boundMax - minSpan ELSE min2
         IN  [minVal |-> min3, maxVal |-> max3]

sortPair(a, b) == <<Min2(a, b), Max2(a, b)>>

\* An option of a call: the caller passes true, false or nothing.
OptionValues == {"true", "false", "undefined"}

\* opts.clampToBounds !== false
ClampToBoundsOf(options) == options.clampToBounds # "false"
\* Mutant of AllowZeroSpanOf: the option is never recognised.
AllowZeroSpanNever(options) == FALSE

\* opts.allowZeroSpan === true
AllowZeroSpanOf(options) == options.allowZeroSpan = "true"

normalizeZoneConfig(rawConfig, options) ==
    LET clampToBounds == ClampToBoundsOf(options)
        allowZeroSpan == AllowZeroSpanOf(options)
        \* lines 160-169: coerce, then sort each pair
        x0 == sortPair(toRoundedInt(rawConfig.x_min, 0), toRoundedInt(rawConfig.x_max, 0))
        y0 == sortPair(toRoundedInt(rawConfig.y_min, 0), toRoundedInt(rawConfig.y_max, 0))
        z0 == sortPair(toRoundedInt(rawConfig.z_min, 0), toRoundedInt(rawConfig.z_max, 0))
        \* lines 171-181: clamp both ends, then sort again
        x1 == IF clampToBounds
              THEN sortPair(clamp(x0[1], limits.xMin, limits.xMax),
                            clamp(x0[2], limits.xMin, limits.xMax))
              ELSE x0
        y1 == IF clampToBounds
              THEN sortPair(clamp(y0[1], limits.yMin, limits.yMax),
                            clamp(y0[2], limits.yMin, limits.yMax))
              ELSE y0
        z1 == IF clampToBounds
              THEN sortPair(clamp(z0[1], limits.zMin, limits.zMax),
                            clamp(z0[2], limits.zMin, limits.zMax))
              ELSE z0
        \* lines 183-187: enforce the minimum span
        x2 == IF ~allowZeroSpan
              THEN enforceMinSpan(x1[1], x1[2], limits.xMin, limits.xMax, limits.minSpan)
              ELSE [minVal |-> x1[1], maxVal |-> x1[2]]
        y2 == IF ~allowZeroSpan
              THEN enforceMinSpan(y1[1], y1[2], limits.yMin, limits.yMax, limits.minSpan)
              ELSE [minVal |-> y1[1], maxVal |-> y1[2]]
        z2 == IF ~allowZeroSpan
              THEN enforceMinSpan(z1[1], z1[2], limits.zMin, limits.zMax, limits.minSpan)
              ELSE [minVal |-> z1[1], maxVal |-> z1[2]]
    IN  [x_min |-> x2.minVal, x_max |-> x2.maxVal,
         y_min |-> y2.minVal, y_max |-> y2.maxVal,
         z_min |-> z2.minVal, z_max |-> z2.maxVal]

\* The error strings of validateZoneConfig (template literals).
SpanError(axisName) ==
    axisName \o " span must be at least " \o ToString(limits.minSpan) \o " cm."
BoundsError(axisName, lo, hi) ==
    axisName \o " must stay within " \o ToString(lo) \o " to " \o ToString(hi) \o " cm."

\* Mutant of validateZoneConfig: normalizes without clamping.
validateZoneConfigNoClamp(rawConfig, options) ==
    LET allowZeroSpan == AllowZeroSpanOf(options)
        normalized == normalizeZoneConfig(rawConfig,
                          [allowZeroSpan |-> IF allowZeroSpan THEN "true" ELSE "false",
                           clampToBounds |-> "false"])
        width == normalized.x_max - normalized.x_min
        depth == normalized.y_max - normalized.y_min
        height == normalized.z_max - normalized.z_min
        PushIf(cond, msg) == IF cond THEN <<msg>> ELSE <<>>
        errors ==
            PushIf(~allowZeroSpan /\ width < limits.minSpan, SpanError("Width")) \o
            PushIf(~allowZeroSpan /\ depth < limits.minSpan, SpanError("Depth")) \o
            PushIf(~allowZeroSpan /\ height < limits.minSpan, SpanError("Height")) \o
            PushIf(normalized.x_min < limits.xMin \/ normalized.x_max > limits.xMax,
                   BoundsError("Width", limits.xMin, limits.xMax)) \o
            PushIf(normalized.y_min < limits.yMin \/ normalized.y_max > limits.yMax,
                   BoundsError("Depth", limits.yMin, limits.yMax)) \o
            PushIf(normalized.z_min < limits.zMin \/ normalized.z_max > limits.zMax,
                   BoundsError("Height", limits.zMin, limits.zMax))
    IN  [valid |-> Len(errors) = 0, errors |-> errors, normalized |-> normalized]

\* Mutant of validateZoneConfig: normalizes with zero spans allowed whatever
\* the option is.
validateZoneConfigSpanNotEnforced(rawConfig, options) ==
    LET allowZeroSpan == AllowZeroSpanOf(options)
        normalized == normalizeZoneConfig(rawConfig,
                          [allowZeroSpan |-> "true",
                           clampToBounds |-> "true"])
        width == normalized.x_max - normalized.x_min
        depth == normalized.y_max - normalized.y_min
        height == normalized.z_max - normalized.z_min
        PushIf(cond, msg) == IF cond THEN <<msg>> ELSE <<>>
        errors ==
            PushIf(~allowZeroSpan /\ width < limits.minSpan, SpanError("Width")) \o
            PushIf(~allowZeroSpan /\ depth < limits.minSpan, SpanError("Depth")) \o
            PushIf(~allowZeroSpan /\ height < limits.minSpan, SpanError("Height")) \o
            PushIf(normalized.x_min < limits.xMin \/ normalized.x_max > limits.xMax,
                   BoundsError("Width", limits.xMin, limits.xMax)) \o
            PushIf(normalized.y_min < limits.yMin \/ normalized.y_max > limits.yMax,
                   BoundsError("Depth", limits.yMin, limits.yMax)) \o
            PushIf(normalized.z_min < limits.zMin \/ normalized.z_max > limits.zMax,
                   BoundsError("Height", limits.zMin, limits.zMax))
    IN  [valid |-> Len(errors) = 0, errors |-> errors, normalized |-> normalized]

validateZoneConfig(rawConfig, options) ==
    LET allowZeroSpan == AllowZeroSpanOf(options)
        normalized == normalizeZoneConfig(rawConfig,
                          [allowZeroSpan |-> IF allowZeroSpan THEN "true" ELSE "false",
                           clampToBounds |-> "true"])
        width == normalized.x_max - normalized.x_min
        depth == normalized.y_max - normalized.y_min
        height == normalized.z_max - normalized.z_min
        PushIf(cond, msg) == IF cond THEN <<msg>> ELSE <<>>
        errors ==
            PushIf(~allowZeroSpan /\ width < limits.minSpan, SpanError("Width")) \o
            PushIf(~allowZeroSpan /\ depth < limits.minSpan, SpanError("Depth")) \o
            PushIf(~allowZeroSpan /\ height < limits.minSpan, SpanError("Height")) \o
            PushIf(normalized.x_min < limits.xMin \/ normalized.x_max > limits.xMax,
                   BoundsError("Width", limits.xMin, limits.xMax)) \o
            PushIf(normalized.y_min < limits.yMin \/ normalized.y_max > limits.yMax,
                   BoundsError("Depth", limits.yMin, limits.yMax)) \o
            PushIf(normalized.z_min < limits.zMin \/ normalized.z_max > limits.zMax,
                   BoundsError("Height", limits.zMin, limits.zMax))
    IN  [valid |-> Len(errors) = 0, errors |-> errors, normalized |-> normalized]

\* Mutant of buildAreaPayload: normalizes with zero spans allowed.
buildAreaPayloadZeroSpan(areaKey, zoneConfig) ==
    LET normalized == normalizeZoneConfig(zoneConfig,
                          [allowZeroSpan |-> "true", clampToBounds |-> "true"])
    IN  [k \in {areaKey} |->
            [width_min |-> normalized.x_min, width_max |-> normalized.x_max,
             depth_min |-> normalized.y_min, depth_max |-> normalized.y_max,
             height_min |-> normalized.z_min, height_max |-> normalized.z_max]]

\* The payload object has the single key areaKey.
buildAreaPayload(areaKey, zoneConfig) ==
    LET normalized == normalizeZoneConfig(zoneConfig,
                          [allowZeroSpan |-> "false", clampToBounds |-> "true"])
    IN  [k \in {areaKey} |->
            [width_min |-> normalized.x_min, width_max |-> normalized.x_max,
             depth_min |-> normalized.y_min, depth_max |-> normalized.y_max,
             height_min |-> normalized.z_min, height_max |-> normalized.z_max]]

(***************************************************************************)
(* Axis configurations given to init(options).                             *)
(***************************************************************************)
DEFAULT_LIMITS ==
    [xMin |-> -900, xMax |-> 900, yMin |-> -200, yMax |-> 1400,
     zMin |-> -500, zMax |-> 500, minSpan |-> 20]

\* The configuration of the test harness (loadZonesModule).
TestLimits ==
    [xMin |-> -200, xMax |-> 200, yMin |-> 0, yMax |-> 300,
     zMin |-> -50, zMax |-> 200, minSpan |-> 20]

\* Small rooms, so that small raw values fall inside, on and outside the bounds:
\* every axis at least minSpan wide (y exactly minSpan),
SmallLimits ==
    [xMin |-> -2, xMax |-> 2, yMin |-> 0, yMax |-> 2,
     zMin |-> -1, zMax |-> 2, minSpan |-> 2]
\* and an odd minSpan with y and z narrower than minSpan.
NarrowLimits ==
    [xMin |-> -2, xMax |-> 2, yMin |-> 0, yMax |-> 1,
     zMin |-> -1, zMax |-> 1, minSpan |-> 3]

LimitConfigs == {DEFAULT_LIMITS, TestLimits, SmallLimits, NarrowLimits}

(***************************************************************************)
(* Raw zone configs given to the geometry functions: one axis takes every  *)
(* pair of raw values, the other two a reversed out-of-range pair or an    *)
(* equal in-range pair; and the raw configs of the tests.                  *)
(***************************************************************************)
RawVals ==
    {NotFinite} \cup {Half(t) : t \in -MaxRaw..MaxRaw} \cup {Num(n) : n \in -MaxRaw..MaxRaw}
RawPairs == RawVals \X RawVals
OtherPairs == {<<Num(MaxRaw), Num(-MaxRaw)>>, <<Num(1), Num(1)>>}
MkRaw(px, py, pz) ==
    [x_min |-> px[1], x_max |-> px[2], y_min |-> py[1], y_max |-> py[2],
     z_min |-> pz[1], z_max |-> pz[2]]
TestRawConfigs ==
    { MkRaw(<<Num(120), Num(40)>>, <<Num(250), Num(50)>>, <<Num(100), Num(0)>>),
      MkRaw(<<Num(1000), Num(-900)>>, <<Num(-80), Num(8)>>, <<Num(11), Num(12)>>),
      MkRaw(<<Num(10), Num(10)>>, <<Num(20), Num(20)>>, <<Num(30), Num(30)>>) }
RawConfigs ==
    {MkRaw(p, q, r) : p \in RawPairs, q \in OtherPairs, r \in OtherPairs}
    \cup {MkRaw(q, p, r) : p \in RawPairs, q \in OtherPairs, r \in OtherPairs}
    \cup {MkRaw(q, r, p) : p \in RawPairs, q \in OtherPairs, r \in OtherPairs}
    \cup TestRawConfigs
OptionRecords == [allowZeroSpan : OptionValues, clampToBounds : OptionValues]
AreaKeys == {"area1", "area2"}

(***************************************************************************)
(* State after construction and init(options).                             *)
(***************************************************************************)
\* What a call sent to its collaborators, in call order per collaborator:
\* stateApi.setPacketStatus, stateApi.showToast, the zone status banner
\* (showZoneStatus), the command log (appendCommandLog), Plotly, assignments
\* to dataTableBodyEl.innerHTML, and the numbers of calls of
\* shouldRenderTargetsFn and updateTimestampFn.
NoEmissions ==
    [status |-> <<>>, toast |-> <<>>, banner |-> <<>>, log |-> <<>>,
     chart |-> <<>>, table |-> <<>>, gate |-> 0, timestamp |-> 0,
     socket |-> <<>>, tabChange |-> <<>>]
NoHistory == [id \in {} |-> <<>>]
DefaultHistoryLength == 15

\* A function with no key: an object or a Map without entries.
NoEntries == [k \in {} |-> <<>>]

\* The parameters of the model and the value that an input element shows
\* before anything is put in it.
Params == {"ledIntensityWhenOn", "ledColorWhenOn"}
EmptyText == [type |-> "string", str |-> ""]

\* The state module before init: no pending change, no known value, no
\* element reference; every input of the page is empty and the dirty bar and
\* the buttons are as the page declares them.
StateLoaded ==
    /\ pendingChanges = <<>>
    /\ latestConfig = NoEntries
    /\ inputElements = NoEntries
    /\ socket = "null"
    /\ inputs = [p \in Params |-> EmptyText]
    /\ dirtyUi = [active |-> FALSE, text |-> "", applyDisabled |-> FALSE,
                  discardDisabled |-> FALSE]
    /\ recorded = NoEntries
    /\ staged = <<>>

\* The tabs module before init.
TabsLoaded ==
    /\ tabButtons = <<>>
    /\ tabPanels = <<>>
    /\ activeTab = <<>>

\* A localStorage without a stored tab, whose calls do not throw.
EmptyStorage == [value |-> <<>>, getThrows |-> FALSE, setThrows |-> FALSE]

\* The zone status element before any banner was shown.
HiddenBanner == [display |-> "", text |-> "", background |-> ""]

\* The history of the accepted commands before any call, when it is not
\* kept and when it is.
Untracked == [tracked |-> FALSE, calls |-> <<>>]
Tracked == [tracked |-> TRUE, calls |-> <<>>]

\* The zones module before init.
ZonesLoaded ==
    /\ lastCommandId = <<>>
    /\ targetHistory = NoHistory
    /\ targetsSuppressedByGate = FALSE
    /\ lastCall = [op |-> "init"]
    /\ emitted = NoEmissions
    /\ seen = NoHistory
    /\ zoneStatus = HiddenBanner
    /\ hideZoneStatusTimer = 0
    /\ timers = {}

InitState ==
    /\ ZonesLoaded
    /\ StateLoaded
    /\ TabsLoaded
    /\ storage = EmptyStorage
    /\ issued = Untracked

\* init with options.limits drawn from LimitConfigs and no historyLength.
InitGeometry ==
    /\ InitState
    /\ limits \in LimitConfigs
    /\ historyLength = DefaultHistoryLength

(***************************************************************************)
(* The geometry entry points: pure functions of their arguments and of     *)
(* limits, with no effect on the state.  A call's result does not depend   *)
(* on earlier calls, so a behaviour of SpecGeometry is init followed by    *)
(* one call.                                                               *)
(***************************************************************************)
FirstCall == lastCall.op = "init"

NormalizeZoneConfigCall ==
    /\ FirstCall
    /\ \E rawConfig \in RawConfigs, options \in OptionRecords :
        /\ lastCall' = [op |-> "normalizeZoneConfig", rawConfig |-> rawConfig,
                        options |-> options,
                        ret |-> normalizeZoneConfig(rawConfig, options)]
        /\ emitted' = NoEmissions
        /\ UNCHANGED <<stateVars, tabVars, bannerVars, issued, limits, historyLength, lastCommandId, targetHistory,
                       targetsSuppressedByGate, seen>>

ValidateZoneConfigCall ==
    /\ FirstCall
    /\ \E rawConfig \in RawConfigs, allowZeroSpan \in OptionValues :
        /\ lastCall' = [op |-> "validateZoneConfig", rawConfig |-> rawConfig,
                        options |-> [allowZeroSpan |-> allowZeroSpan],
                        ret |-> validateZoneConfig(rawConfig,
                                                   [allowZeroSpan |-> allowZeroSpan])]
        /\ emitted' = NoEmissions
        /\ UNCHANGED <<stateVars, tabVars, bannerVars, issued, limits, historyLength, lastCommandId, targetHistory,
                       targetsSuppressedByGate, seen>>

BuildAreaPayloadCall ==
    /\ FirstCall
    /\ \E areaKey \in AreaKeys, rawConfig \in RawConfigs :
        /\ lastCall' = [op |-> "buildAreaPayload", areaKey |-> areaKey,
                        rawConfig |-> rawConfig,
                        ret |-> buildAreaPayload(areaKey, rawConfig)]
        /\ emitted' = NoEmissions
        /\ UNCHANGED <<stateVars, tabVars, bannerVars, issued, limits, historyLength, lastCommandId, targetHistory,
                       targetsSuppressedByGate, seen>>

NextGeometry ==
    \/ NormalizeZoneConfigCall
    \/ ValidateZoneConfigCall
    \/ BuildAreaPayloadCall

SpecGeometry == InitGeometry /\ [][NextGeometry]_vars

(***************************************************************************)
(* The command lifecycle tracker.  init was given a stateApi with          *)
(* setPacketStatus and showToast, a zone status element and a command log  *)
(* element, so the wrappers setPacketStatus, showToast, showZoneStatus and  *)
(* appendCommandLog pass every call on.                                    *)
(***************************************************************************)
MaxActionId == 5
MaxZones == 2

\* Arguments of setPendingCommand: values whose Number() is not finite, the
\* integers 0..MaxActionId and the non-integers between them.
ActionIdValues == {NotFinite} \cup {Half(t) : t \in 0..(2 * MaxActionId)}

\* A number >= 0 in a template literal.
NumberToString(v) ==
    IF v.twice % 2 = 0 THEN ToString(v.twice \div 2)
    ELSE ToString(v.twice \div 2) \o ".5"

\* Arguments of handleInterferenceZones: an array of 0..MaxZones zones, or
\* something that is not an array.
ZoneLists == [isArray : {TRUE}, length : 0..MaxZones] \cup {[isArray |-> FALSE, length |-> 0]}

Pending(id) == <<id>>
Idle == <<>>

\* Mutant of CommandLabel: the table has no entry for command id 5.
CommandLabelWithoutFive(parsedId) ==
    CASE parsedId = Num(1) -> "Auto-Config Interference"
      [] parsedId = Num(3) -> "Clear Interference"
      [] parsedId = Num(4) -> "Reset Detection Zones"
      [] OTHER -> "Command " \o NumberToString(parsedId)

\* labelMap[parsedId] || `Command ${parsedId}`
CommandLabel(parsedId) ==
    CASE parsedId = Num(1) -> "Auto-Config Interference"
      [] parsedId = Num(3) -> "Clear Interference"
      [] parsedId = Num(4) -> "Reset Detection Zones"
      [] parsedId = Num(5) -> "Clear Stay Zones"
      [] OTHER -> "Command " \o NumberToString(parsedId)

\* statusMap[parsedId] || `Sending ${label}...`
CommandStatus(parsedId) ==
    CASE parsedId = Num(1) -> "Scanning for interference..."
      [] parsedId = Num(3) -> "Clearing interference zones..."
      [] parsedId = Num(4) -> "Resetting detection zones..."
      [] parsedId = Num(5) -> "Clearing stay zones..."
      [] OTHER -> "Sending " \o CommandLabel(parsedId) \o "..."

\* History variable.  While tracked, calls holds one entry per accepted
\* setPendingCommand call, in call order, with the id of the call and the
\* number of completion reports that were classified against the call: a
\* report counts for the latest call that set the id the report was
\* classified against.  Untracked, it stays empty.
MaxCommands == 2
IssuedAfterSet(id) ==
    IF issued.tracked
    THEN [issued EXCEPT !.calls = Append(@, [id |-> id, reports |-> 0])]
    ELSE issued
IssuedAfterReport(id) ==
    LET setters == {i \in 1..Len(issued.calls) : issued.calls[i].id = id}
    IN  IF setters = {} THEN issued
        ELSE LET latest == CHOOSE i \in setters : \A j \in setters : j <= i
             IN  [issued EXCEPT !.calls[latest].reports = @ + 1]

\* Mutant of setPendingCommand: an id that is pending is not replaced.
setPendingCommandKeepingEarlier(actionId) ==
    /\ lastCall' = [op |-> "setPendingCommand", actionId |-> actionId]
    /\ IF ~actionId.finite
       THEN /\ emitted' = NoEmissions
            /\ UNCHANGED <<lastCommandId, issued>>
       ELSE /\ Len(issued.calls) < MaxCommands
            /\ lastCommandId' = IF lastCommandId = Idle THEN Pending(actionId)
                                ELSE lastCommandId
            /\ issued' = IssuedAfterSet(actionId)
            /\ emitted' = [NoEmissions EXCEPT
                   !.status = <<[mode |-> "syncing", message |-> CommandStatus(actionId)]>>,
                   !.log = <<[message |-> "Sent " \o CommandLabel(actionId),
                              type |-> "syncing"]>>]
    /\ UNCHANGED <<stateVars, tabVars, bannerVars, limits, historyLength, targetHistory, targetsSuppressedByGate,
                   seen>>

setPendingCommand(actionId) ==
    /\ lastCall' = [op |-> "setPendingCommand", actionId |-> actionId]
    /\ IF ~actionId.finite
       THEN /\ emitted' = NoEmissions
            /\ UNCHANGED <<lastCommandId, issued>>
       ELSE /\ Len(issued.calls) < MaxCommands
            /\ lastCommandId' = Pending(actionId)
            /\ issued' = IssuedAfterSet(actionId)
            /\ emitted' = [NoEmissions EXCEPT
                   !.status = <<[mode |-> "syncing", message |-> CommandStatus(actionId)]>>,
                   !.log = <<[message |-> "Sent " \o CommandLabel(actionId),
                              type |-> "syncing"]>>]
    /\ UNCHANGED <<stateVars, tabVars, bannerVars, limits, historyLength, targetHistory, targetsSuppressedByGate,
                   seen>>

\* Array.isArray(zones) ? zones.length : 0
ZoneCountOf(zones) == IF zones.isArray THEN zones.length ELSE 0

Plural(n) == IF n = 1 THEN "" ELSE "s"

\* Mutant of InterferenceOutcome: the command id 3 branch reports success
\* whatever the zone count.
InterferenceOutcomeClearAlwaysSaved(commandId, zoneCount) ==
    CASE commandId = Num(1) /\ zoneCount = 0 ->
            [message |-> "Scan complete: no active interference found.", type |-> "saved"]
      [] commandId = Num(1) /\ zoneCount # 0 ->
            [message |-> "Auto-config complete: found " \o ToString(zoneCount)
                         \o " interference zone" \o Plural(zoneCount) \o ".",
             type |-> "info"]
      [] commandId = Num(3) ->
            [message |-> "Interference cleared: zones reset.", type |-> "saved"]
      [] commandId = Num(4) ->
            [message |-> "Detection zone reset command completed.", type |-> "saved"]
      [] commandId = Num(5) ->
            [message |-> "Stay zone clear command completed.", type |-> "saved"]
      [] OTHER -> [message |-> "Command completed.", type |-> "info"]

\* Lines 349-377 of handleInterferenceZones: message and type.
InterferenceOutcome(commandId, zoneCount) ==
    CASE commandId = Num(1) /\ zoneCount = 0 ->
            [message |-> "Scan complete: no active interference found.", type |-> "saved"]
      [] commandId = Num(1) /\ zoneCount # 0 ->
            [message |-> "Auto-config complete: found " \o ToString(zoneCount)
                         \o " interference zone" \o Plural(zoneCount) \o ".",
             type |-> "info"]
      [] commandId = Num(3) /\ zoneCount = 0 ->
            [message |-> "Interference cleared: zones reset.", type |-> "saved"]
      [] commandId = Num(3) /\ zoneCount # 0 ->
            [message |-> "Clear command finished but " \o ToString(zoneCount)
                         \o " zone" \o Plural(zoneCount) \o " still reported.",
             type |-> "error"]
      [] commandId = Num(4) ->
            [message |-> "Detection zone reset command completed.", type |-> "saved"]
      [] commandId = Num(5) ->
            [message |-> "Stay zone clear command completed.", type |-> "saved"]
      [] OTHER -> [message |-> "Command completed.", type |-> "info"]

\* Mutant of InterferenceEmissions: the toast is left out.
InterferenceEmissionsNoToast(outcome) ==
    LET packetMode == IF outcome.type = "error" THEN "error"
                      ELSE IF outcome.type = "saved" THEN "saved" ELSE "info"
    IN  [NoEmissions EXCEPT
            !.banner = <<[message |-> outcome.message, type |-> outcome.type]>>,
            !.log = <<[message |-> outcome.message, type |-> outcome.type]>>,
            !.status = <<[mode |-> packetMode, message |-> outcome.message]>>]

\* Lines 379-384 of handleInterferenceZones: banner, log, status and toast.
InterferenceEmissions(outcome) ==
    LET packetMode == IF outcome.type = "error" THEN "error"
                      ELSE IF outcome.type = "saved" THEN "saved" ELSE "info"
    IN  [NoEmissions EXCEPT
            !.banner = <<[message |-> outcome.message, type |-> outcome.type]>>,
            !.log = <<[message |-> outcome.message, type |-> outcome.type]>>,
            !.status = <<[mode |-> packetMode, message |-> outcome.message]>>,
            !.toast = <<[mode |-> IF outcome.type = "error" THEN "error" ELSE packetMode,
                         message |-> outcome.message, timeoutMs |-> 2200]>>]

\* The timeouts of one state are few: a banner is not shown while
\* MaxTimers timeouts are scheduled.
MaxTimers == 3

\* backgroundMap[type] || backgroundMap.info
BannerBackground(type) ==
    CASE type = "saved" -> "rgba(76, 175, 80, 0.9)"
      [] type = "syncing" -> "rgba(0, 188, 212, 0.92)"
      [] type = "error" -> "rgba(255, 82, 82, 0.95)"
      [] OTHER -> "rgba(255, 152, 0, 0.95)"

\* The id setTimeout returns: an id that no scheduled timeout has.  The model
\* takes the least one that is not the id stored in hideZoneStatusTimer.
NewTimerId ==
    CHOOSE id \in 1..(Cardinality(timers) + 2) :
        /\ id # hideZoneStatusTimer
        /\ \A t \in timers : t.id # id
        /\ \A less \in 1..(id - 1) :
              less = hideZoneStatusTimer \/ \E t \in timers : t.id = less

\* A scheduled timeout with its id; latest tells that no banner was shown
\* since it was scheduled.
Timer(id, latest) == [id |-> id, latest |-> latest]
Outdated(scheduled) == {Timer(t.id, FALSE) : t \in scheduled}

\* Mutant of showZoneStatus: the timeout of the banner before is not cleared.
showZoneStatusStackingTimers(message, type) ==
    /\ zoneStatus' = [display |-> "block", text |-> message,
                      background |-> BannerBackground(type)]
    /\ timers' = Outdated(timers) \cup {Timer(NewTimerId, TRUE)}
    /\ hideZoneStatusTimer' = NewTimerId

\* Lines 280-297, zoneStatusEl being there: clearTimeout of an id that no
\* scheduled timeout has does nothing.
showZoneStatus(message, type) ==
    /\ zoneStatus' = [display |-> "block", text |-> message,
                      background |-> BannerBackground(type)]
    /\ timers' = Outdated({t \in timers : t.id # hideZoneStatusTimer})
                    \cup {Timer(NewTimerId, TRUE)}
    /\ hideZoneStatusTimer' = NewTimerId

\* The callback of a scheduled timeout runs (lines 294-296).
HideZoneStatusTimeout(timer) ==
    /\ lastCall' = [op |-> "hideZoneStatusTimeout", timer |-> timer]
    /\ zoneStatus' = [zoneStatus EXCEPT !.display = "none"]
    /\ timers' = timers \ {timer}
    /\ emitted' = NoEmissions
    /\ UNCHANGED <<stateVars, tabVars, limits, historyLength, lastCommandId, targetHistory,
                   targetsSuppressedByGate, seen, hideZoneStatusTimer, issued>>

\* Mutant of handleInterferenceZones: without a pending id the call reports
\* the completion of an unknown command.
handleInterferenceZonesWithoutGuard(zones) ==
    /\ lastCall' = [op |-> "handleInterferenceZones", zones |-> zones]
    /\ Cardinality(timers) < MaxTimers
    /\ LET outcome == InterferenceOutcome(IF lastCommandId = Idle THEN Num(0)
                                          ELSE lastCommandId[1],
                                          ZoneCountOf(zones))
       IN  /\ emitted' = InterferenceEmissions(outcome)
           /\ showZoneStatus(outcome.message, outcome.type)
    /\ lastCommandId' = Idle
    /\ UNCHANGED <<stateVars, tabVars, limits, historyLength, targetHistory, targetsSuppressedByGate,
                   seen, issued>>

handleInterferenceZones(zones) ==
    /\ lastCall' = [op |-> "handleInterferenceZones", zones |-> zones]
    /\ IF lastCommandId = Idle
       THEN /\ emitted' = NoEmissions
            /\ UNCHANGED <<lastCommandId, bannerVars, issued>>
       ELSE /\ Cardinality(timers) < MaxTimers
            /\ LET outcome == InterferenceOutcome(lastCommandId[1], ZoneCountOf(zones))
               IN  /\ emitted' = InterferenceEmissions(outcome)
                   /\ showZoneStatus(outcome.message, outcome.type)
            /\ issued' = IssuedAfterReport(lastCommandId[1])
            /\ lastCommandId' = Idle
    /\ UNCHANGED <<stateVars, tabVars, limits, historyLength, targetHistory, targetsSuppressedByGate,
                   seen>>

\* Mutant of clearPendingCommand: the pending id is kept.
clearPendingCommandKeepingId ==
    /\ lastCall' = [op |-> "clearPendingCommand"]
    /\ emitted' = NoEmissions
    /\ UNCHANGED <<stateVars, tabVars, bannerVars, issued, limits, historyLength, lastCommandId, targetHistory,
                   targetsSuppressedByGate, seen>>

clearPendingCommand ==
    /\ lastCall' = [op |-> "clearPendingCommand"]
    /\ lastCommandId' = Idle
    /\ emitted' = NoEmissions
    /\ UNCHANGED <<stateVars, tabVars, bannerVars, issued, limits, historyLength, targetHistory, targetsSuppressedByGate,
                   seen>>

getPendingCommandId == lastCommandId

\* Arguments of handleCommandResult: null, or an object with an action, a
\* status, a payload (controlID "" is an absent one, action_id as a template
\* literal prints it) and a message ("" is an absent one).
NullResult ==
    [isNull |-> TRUE, action |-> "", status |-> "", controlID |-> "",
     action_id |-> "undefined", message |-> ""]
CommandResults ==
    {NullResult}
    \cup [isNull : {FALSE}, action : {"", "update_parameter"}, status : {"sent"},
          controlID : {""}, action_id : {"undefined"}, message : {""}]
    \cup [isNull : {FALSE}, action : {"send_command"}, status : {"sent", "error", "queued"},
          controlID : {"", "mmwave_control_commands"}, action_id : {"undefined", "3"},
          message : {"", "Device offline"}]

\* Mutant of handleCommandResult: a failure sets no status and its toast is
\* as short as the toast of an acceptance.
handleCommandResultErrorAsSent(result) ==
    LET controlID == IF result.controlID = "" THEN "unknown_command" ELSE result.controlID
        message == IF result.message = "" THEN "Command failed" ELSE result.message
    IN
    /\ lastCall' = [op |-> "handleCommandResult", result |-> result]
    /\ emitted' =
         IF result.isNull \/ result.action = "" THEN NoEmissions
         ELSE IF result.action # "send_command" THEN NoEmissions
         ELSE IF result.status = "sent"
         THEN [NoEmissions EXCEPT
                  !.log = <<[message |-> "Accepted " \o controlID \o " ("
                                         \o result.action_id \o ")",
                             type |-> "saved"]>>,
                  !.toast = <<[mode |-> "saved",
                               message |-> "Command queued: " \o controlID,
                               timeoutMs |-> 1600]>>]
         ELSE IF result.status = "error"
         THEN [NoEmissions EXCEPT
                  !.log = <<[message |-> "Failed " \o controlID \o ": " \o message,
                             type |-> "error"]>>,
                  !.toast = <<[mode |-> "error", message |-> message,
                               timeoutMs |-> 1600]>>]
         ELSE NoEmissions
    /\ UNCHANGED <<stateVars, tabVars, bannerVars, issued, limits, historyLength, lastCommandId, targetHistory,
                   targetsSuppressedByGate, seen>>

handleCommandResult(result) ==
    LET controlID == IF result.controlID = "" THEN "unknown_command" ELSE result.controlID
        message == IF result.message = "" THEN "Command failed" ELSE result.message
    IN
    /\ lastCall' = [op |-> "handleCommandResult", result |-> result]
    /\ emitted' =
         IF result.isNull \/ result.action = "" THEN NoEmissions
         ELSE IF result.action # "send_command" THEN NoEmissions
         ELSE IF result.status = "sent"
         THEN [NoEmissions EXCEPT
                  !.log = <<[message |-> "Accepted " \o controlID \o " ("
                                         \o result.action_id \o ")",
                             type |-> "saved"]>>,
                  !.toast = <<[mode |-> "saved",
                               message |-> "Command queued: " \o controlID,
                               timeoutMs |-> 1600]>>]
         ELSE IF result.status = "error"
         THEN [NoEmissions EXCEPT
                  !.log = <<[message |-> "Failed " \o controlID \o ": " \o message,
                             type |-> "error"]>>,
                  !.status = <<[mode |-> "error", message |-> "Error: " \o message]>>,
                  !.toast = <<[mode |-> "error", message |-> message,
                               timeoutMs |-> 3000]>>]
         ELSE NoEmissions
    /\ UNCHANGED <<stateVars, tabVars, bannerVars, issued, limits, historyLength, lastCommandId, targetHistory,
                   targetsSuppressedByGate, seen>>

\* init with no limits and no historyLength option.
InitCommands ==
    /\ InitState
    /\ limits = DEFAULT_LIMITS
    /\ historyLength = DefaultHistoryLength

NextCommands ==
    \/ \E actionId \in ActionIdValues : setPendingCommand(actionId)
    \/ \E zones \in ZoneLists : handleInterferenceZones(zones)
    \/ clearPendingCommand
    \/ \E result \in CommandResults : handleCommandResult(result)

SpecCommands == InitCommands /\ [][NextCommands]_vars

\* The tracker with the timeouts of its banner: a scheduled timeout that is
\* not cleared runs in the end.
NextBanner ==
    \/ \E actionId \in ActionIdValues : setPendingCommand(actionId)
    \/ \E zones \in ZoneLists : handleInterferenceZones(zones)
    \/ clearPendingCommand
    \/ \E timer \in timers : HideZoneStatusTimeout(timer)

SpecBanner ==
    /\ InitCommands
    /\ [][NextBanner]_vars
    /\ WF_vars(\E timer \in timers : HideZoneStatusTimeout(timer))

\* The tracker with the history of its accepted commands, for the ids that
\* the tracker tells apart and one that it does not know.
TrackedIdValues == {NotFinite, Num(1), Num(3), Num(4), Num(2)}
InitTracker ==
    /\ ZonesLoaded
    /\ StateLoaded
    /\ TabsLoaded
    /\ storage = EmptyStorage
    /\ issued = Tracked
    /\ limits = DEFAULT_LIMITS
    /\ historyLength = DefaultHistoryLength
NextTracker ==
    \/ \E actionId \in TrackedIdValues : setPendingCommand(actionId)
    \/ \E zones \in ZoneLists : handleInterferenceZones(zones)
    \/ clearPendingCommand
    \/ \E result \in CommandResults : handleCommandResult(result)
SpecTracker == InitTracker /\ [][NextTracker]_vars

(***************************************************************************)
(* The target history and render coordinator.  init was given a chart      *)
(* element, a table body element, the stateApi and the callbacks            *)
(* updateTimestamp, getLayout, getIsEditing, getIsInteracting and           *)
(* shouldRenderTargets; window.Plotly may be missing at the time of a call  *)
(* and a Plotly call may throw.                                             *)
(***************************************************************************)
MaxTargets == 2
MaxHistoryLength == 2
MaxRun == 2

\* init with options.historyLength drawn from 0..MaxHistoryLength.
InitFrames ==
    /\ InitState
    /\ limits = DEFAULT_LIMITS
    /\ historyLength \in 0..MaxHistoryLength

\* A null entry of a coordinate array, and a number in one.
Null == <<>>
Some(v) == <<v>>

TopicA == "zigbee2mqtt/bedroom_switch"
TopicB == "zigbee2mqtt/hall_switch"

\* Raw targets of a payload: the target of the tests; a target of the same
\* id with a fractional x, no y, a large z and a negative doppler; and that
\* target without an id.
TestTarget == [id |-> Num(1), x |-> Num(77), y |-> Num(44), z |-> Num(-16), dop |-> Num(0)]
RawTargets ==
    { TestTarget,
      [id |-> Num(1), x |-> Half(7), y |-> NotFinite, z |-> Num(200), dop |-> Num(-11)],
      [id |-> NotFinite, x |-> Half(7), y |-> NotFinite, z |-> Num(200), dop |-> Num(-11)] }
TargetLists == UNION { [1..n -> RawTargets] : n \in 0..MaxTargets }

\* msg.payload: its targets are an array of raw targets or not an array.
Payloads ==
    [targetsIsArray : {TRUE}, targets : TargetLists]
    \cup {[targetsIsArray |-> FALSE, targets |-> <<>>]}
TestPayload == [targetsIsArray |-> TRUE, targets |-> <<TestTarget>>]

\* A call of handleNewData: msg (topic "" is an absent one), currentTopic
\* ("" is an absent one) and what the environment answers during the call:
\* whether chartEl and window.Plotly are there, the results of
\* shouldRenderTargetsFn, getIsEditingFn and getIsInteractingFn, and which
\* Plotly call of this call throws (0: none).  What a call does not read is
\* not varied.
PassingCall ==
    [msg |-> [isNull |-> FALSE, topic |-> TopicA, hasPayload |-> TRUE,
              payload |-> TestPayload],
     currentTopic |-> TopicA,
     env |-> [chartAvailable |-> TRUE, gate |-> TRUE, isEditing |-> FALSE,
              isInteracting |-> FALSE, chartFails |-> 0]]
RejectedCalls ==
    { [PassingCall EXCEPT !.msg.isNull = TRUE, !.msg.topic = "", !.msg.hasPayload = FALSE],
      [PassingCall EXCEPT !.msg.topic = ""],
      [PassingCall EXCEPT !.msg.hasPayload = FALSE],
      [PassingCall EXCEPT !.currentTopic = ""],
      [PassingCall EXCEPT !.currentTopic = TopicB],
      [PassingCall EXCEPT !.env.chartAvailable = FALSE] }
SuppressedCalls ==
    { [PassingCall EXCEPT !.env.gate = FALSE, !.env.chartFails = f] : f \in 0..2 }
AcceptedCalls ==
    { [PassingCall EXCEPT !.msg.payload = p, !.env.isEditing = e[1],
                          !.env.isInteracting = e[2], !.env.chartFails = e[3]] :
        p \in Payloads,
        e \in { <<FALSE, FALSE, 0>>, <<FALSE, FALSE, 1>>, <<TRUE, FALSE, 0>>,
                <<TRUE, TRUE, 0>>, <<FALSE, TRUE, 0>> } }
FrameCalls == RejectedCalls \cup SuppressedCalls \cup AcceptedCalls

normalizeTarget(target) ==
    [id |-> toRoundedInt(target.id, 0),
     x |-> toRoundedInt(target.x, 0),
     y |-> toRoundedInt(target.y, 0),
     z |-> toRoundedInt(target.z, 0),
     dop |-> toRoundedInt(target.dop, 0)]

\* Mutant of getMotionLabelFromDoppler: the three labels of the table.
getMotionLabelOfTable(doppler) ==
    IF doppler > 10 THEN "Moving"
    ELSE IF doppler < -10 THEN "Approaching" ELSE "Stationary"

getMotionLabelFromDoppler(doppler) ==
    IF doppler > 10 \/ doppler < -10 THEN "Moving" ELSE "Stationary"

getFriendlyTargetLabel(idValue) ==
    IF idValue = 1 THEN "D" \o ToString(idValue) \o " (Primary)"
    ELSE "D" \o ToString(idValue) \o " (Secondary)"

NoDataRow(notice) ==
    "<tr><td colspan=\"5\" class=\"no-data\">" \o notice \o "</td></tr>"

\* Mutant of TargetRow: a doppler of 10 or of -10 is over the threshold.
TargetRowInclusiveThresholds(target) ==
    LET dopStatus == IF target.dop >= 10 THEN "Moving"
                     ELSE IF target.dop <= -10 THEN "Approaching" ELSE "Stationary"
        dopClass == IF target.dop >= 10 THEN "doppler-moving"
                    ELSE IF target.dop <= -10 THEN "doppler-approaching"
                    ELSE "doppler-stationary"
        targetLabel == getFriendlyTargetLabel(target.id)
        targetClass == IF target.id = 1 THEN "target-primary" ELSE "target-secondary"
    IN  "<tr><td class=\"target-id-cell\"><span class=\"target-id-tag " \o targetClass
        \o "\"><span class=\"target-id-dot\"></span>" \o targetLabel
        \o "</span></td><td class=\"target-num\">" \o ToString(target.x)
        \o "</td><td class=\"target-num\">" \o ToString(target.y)
        \o "</td><td class=\"target-num\">" \o ToString(target.z)
        \o "</td><td class=\"doppler-cell\"><span class=\"doppler-badge " \o dopClass
        \o "\">" \o dopStatus \o "</span></td></tr>"

\* The table row of a target (lines 532-543).
TargetRow(target) ==
    LET dopStatus == IF target.dop > 10 THEN "Moving"
                     ELSE IF target.dop < -10 THEN "Approaching" ELSE "Stationary"
        dopClass == IF target.dop > 10 THEN "doppler-moving"
                    ELSE IF target.dop < -10 THEN "doppler-approaching"
                    ELSE "doppler-stationary"
        targetLabel == getFriendlyTargetLabel(target.id)
        targetClass == IF target.id = 1 THEN "target-primary" ELSE "target-secondary"
    IN  "<tr><td class=\"target-id-cell\"><span class=\"target-id-tag " \o targetClass
        \o "\"><span class=\"target-id-dot\"></span>" \o targetLabel
        \o "</span></td><td class=\"target-num\">" \o ToString(target.x)
        \o "</td><td class=\"target-num\">" \o ToString(target.y)
        \o "</td><td class=\"target-num\">" \o ToString(target.z)
        \o "</td><td class=\"doppler-cell\"><span class=\"doppler-badge " \o dopClass
        \o "\">" \o dopStatus \o "</span></td></tr>"

\* The values assigned to innerHTML by lines 530-544: "" and then one more
\* row at a time.
RECURSIVE TableWrites(_, _)
TableWrites(targets, n) ==
    IF n = 0 THEN <<"">>
    ELSE LET before == TableWrites(targets, n - 1)
         IN  Append(before, before[n] \o TargetRow(targets[n]))

\* A sequence mapped through an operator.
MapSeq(Op(_), seq) == [i \in 1..Len(seq) |-> Op(seq[i])]

\* The two restyle calls of clearTargetVisualization; the second is not
\* reached when the first throws.
ClearingChartCalls(chartFails) ==
    LET first == [kind |-> "restyle", series |-> <<0>>,
                  data |-> [x |-> <<<<>>>>, y |-> <<<<>>>>, text |-> <<<<>>>>],
                  threw |-> (chartFails = 1)]
        second == [kind |-> "restyle", series |-> <<1>>,
                   data |-> [x |-> <<<<>>>>, y |-> <<<<>>>>],
                   threw |-> (chartFails = 2)]
    IN  IF chartFails = 1 THEN <<first>> ELSE <<first, second>>

\* Mutant of ClearingEmissions: the table is not written.
ClearingEmissionsNoTable(message, chartAvailable, chartFails) ==
    [NoEmissions EXCEPT
        !.chart = IF chartAvailable THEN ClearingChartCalls(chartFails) ELSE <<>>]

\* The effects of clearTargetVisualization(message) other than on
\* targetHistory; message "" is an absent one.
ClearingEmissions(message, chartAvailable, chartFails) ==
    LET notice == IF message = "" THEN "No targets detected" ELSE message
    IN  [NoEmissions EXCEPT
            !.chart = IF chartAvailable THEN ClearingChartCalls(chartFails) ELSE <<>>,
            !.table = <<NoDataRow(notice)>>]

\* Mutant of EvictAbsent: nothing is evicted.
EvictNothing(history, targets) == history

\* Lines 473-476: the trails of the ids that are not in the frame are deleted.
EvictAbsent(history, targets) ==
    LET currentIds == {targets[i].id : i \in 1..Len(targets)}
    IN  [id \in (DOMAIN history) \cap currentIds |-> history[id]]

\* Mutant of PushPoint: the newest point is dropped instead of the oldest.
PushPointDropNewest(trail, point) ==
    LET pushed == Append(trail, point)
    IN  IF Len(pushed) > historyLength THEN SubSeq(pushed, 1, Len(pushed) - 1) ELSE pushed

\* Lines 480-481: push, then shift once when the trail is too long.
PushPoint(trail, point) ==
    LET pushed == Append(trail, point)
    IN  IF Len(pushed) > historyLength THEN Tail(pushed) ELSE pushed

\* Lines 478-482: the targets are appended in frame order, from target i on.
RECURSIVE AppendTargets(_, _, _)
AppendTargets(history, targets, i) ==
    IF i > Len(targets) THEN history
    ELSE LET target == targets[i]
             trail == IF target.id \in DOMAIN history THEN history[target.id] ELSE <<>>
             next == PushPoint(trail, [x |-> target.x, y |-> target.y])
         IN  AppendTargets([id \in (DOMAIN history) \cup {target.id} |->
                               IF id = target.id THEN next ELSE history[id]],
                           targets, i + 1)

\* Mutant of FlattenHistory: no null after a trail.
RECURSIVE FlattenHistoryNoSentinel(_, _, _)
FlattenHistoryNoSentinel(history, ids, coord) ==
    IF ids = {} THEN <<>>
    ELSE LET id == CHOOSE i \in ids : \A j \in ids : i <= j
         IN  [k \in 1..Len(history[id]) |-> Some(history[id][k][coord])]
             \o FlattenHistoryNoSentinel(history, ids \ {id}, coord)

\* Lines 484-493 for one coordinate: Object.values visits the keys that are
\* integers >= 0 in ascending order; after each trail comes a null.
RECURSIVE FlattenHistory(_, _, _)
FlattenHistory(history, ids, coord) ==
    IF ids = {} THEN <<>>
    ELSE LET id == CHOOSE i \in ids : \A j \in ids : i <= j
         IN  [k \in 1..Len(history[id]) |-> Some(history[id][k][coord])]
             \o <<Null>>
             \o FlattenHistory(history, ids \ {id}, coord)

XOf(point) == point.x
YOf(point) == point.y

\* Math.max(8, Math.min(40, 10 + (target.z / 5))), in fifths.
MarkerSizeFifths(target) == Max2(8 * 5, Min2(40 * 5, 10 * 5 + target.z))

MarkerText(target) ==
    getFriendlyTargetLabel(target.id) \o "<br>" \o getMotionLabelFromDoppler(target.dop)

\* Mutant of UpdateChartCall: a full redraw whatever isEditing is.
UpdateChartCallAlwaysReact(targets, history, isEditing, threw) ==
    [kind |-> "react",
     series |-> <<0, 1>>,
     data |-> [x |-> MapSeq(XOf, targets), y |-> MapSeq(YOf, targets),
               text |-> MapSeq(MarkerText, targets),
               size |-> MapSeq(MarkerSizeFifths, targets),
               historyX |-> FlattenHistory(history, DOMAIN history, "x"),
               historyY |-> FlattenHistory(history, DOMAIN history, "y")],
     layout |-> "getLayoutFn()",
     threw |-> threw]

\* The Plotly call of an accepted frame (lines 499-522).
UpdateChartCall(targets, history, isEditing, threw) ==
    [kind |-> IF isEditing THEN "restyle" ELSE "react",
     series |-> <<0, 1>>,
     data |-> [x |-> MapSeq(XOf, targets), y |-> MapSeq(YOf, targets),
               text |-> MapSeq(MarkerText, targets),
               size |-> MapSeq(MarkerSizeFifths, targets),
               historyX |-> FlattenHistory(history, DOMAIN history, "x"),
               historyY |-> FlattenHistory(history, DOMAIN history, "y")],
     layout |-> IF isEditing THEN "none" ELSE "getLayoutFn()",
     threw |-> threw]

\* The positions of the targets of a frame that carry the id, in frame order.
PositionsOf(targets, id) ==
    LET Pick(i) == IF targets[i].id = id
                   THEN <<[x |-> targets[i].x, y |-> targets[i].y]>> ELSE <<>>
        F[i \in 0..Len(targets)] == IF i = 0 THEN <<>> ELSE F[i - 1] \o Pick(i)
    IN  F[Len(targets)]

\* History variable.  For an id of the accepted frame: frames is the run of
\* consecutive accepted frames that hold the id, one entry per frame with the
\* id's positions in it, and returned tells that the id was in the frame
\* before the previous one and not in the previous one.  An id of the
\* previous frame that is not in this one is kept with an empty run.
SeenAfter(targets) ==
    LET ids == {targets[i].id : i \in 1..Len(targets)}
        before == {id \in DOMAIN seen : seen[id].frames # <<>>}
        left == {id \in DOMAIN seen : seen[id].frames = <<>>}
    IN  [id \in ids \cup before |->
            IF id \in ids
            THEN [frames |-> Append(IF id \in before THEN seen[id].frames ELSE <<>>,
                                    PositionsOf(targets, id)),
                  returned |-> id \in left]
            ELSE [frames |-> <<>>, returned |-> FALSE]]

\* Mutant of RejectsFrame: the chart surface is not looked at.
RejectsFrameWhateverChart(msg, currentTopic, env) ==
    \/ msg.isNull \/ msg.topic = "" \/ ~msg.hasPayload
    \/ currentTopic = "" \/ msg.topic # currentTopic

\* Lines 447-449: the early returns of handleNewData.
RejectsFrame(msg, currentTopic, env) ==
    \/ msg.isNull \/ msg.topic = "" \/ ~msg.hasPayload
    \/ currentTopic = "" \/ msg.topic # currentTopic
    \/ ~env.chartAvailable

\* Mutant of handleNewData: the first suppressed frame leaves the target
\* history as it is.
handleNewDataKeepingSuppressedTrails(msg, currentTopic, env) ==
    LET Returned(ret) == [op |-> "handleNewData", msg |-> msg,
                          currentTopic |-> currentTopic, env |-> env, ret |-> ret]
        payload == msg.payload
        targets == IF payload.targetsIsArray
                   THEN MapSeq(normalizeTarget, payload.targets) ELSE <<>>
        history == AppendTargets(EvictAbsent(targetHistory, targets), targets, 1)
        status == <<[mode |-> "info",
                     message |-> "Targets Visible: " \o ToString(Len(targets))]>>
        pushesChart == ~(env.isEditing /\ env.isInteracting)
        chartThrows == pushesChart /\ env.chartFails = 1
        chart == IF pushesChart
                 THEN <<UpdateChartCall(targets, history, env.isEditing, chartThrows)>>
                 ELSE <<>>
        skipsTable == chartThrows \/ ~pushesChart
    IN
    IF RejectsFrame(msg, currentTopic, env)
    THEN \* lines 447-449
         /\ lastCall' = Returned("false")
         /\ emitted' = NoEmissions
         /\ UNCHANGED <<stateVars, tabVars, bannerVars, issued, limits, historyLength, lastCommandId, targetHistory,
                        targetsSuppressedByGate, seen>>
    ELSE IF ~env.gate
    THEN \* lines 454-461
         /\ lastCall' = Returned("true")
         /\ IF ~targetsSuppressedByGate
            THEN /\ UNCHANGED targetHistory
                 /\ emitted' = [ClearingEmissions("No targets detected", TRUE,
                                                  env.chartFails)
                                   EXCEPT !.gate = 1,
                                          !.status = <<[mode |-> "info",
                                                        message |-> "No active occupancy"]>>]
            ELSE /\ emitted' = [NoEmissions EXCEPT !.gate = 1]
                 /\ UNCHANGED targetHistory
         /\ targetsSuppressedByGate' = TRUE
         /\ seen' = NoHistory
         /\ UNCHANGED <<stateVars, tabVars, bannerVars, issued, limits, historyLength, lastCommandId>>
    ELSE \* lines 462-546
         /\ \A id \in DOMAIN seen : Len(seen[id].frames) < MaxRun
         /\ targetsSuppressedByGate' = FALSE
         /\ targetHistory' = history
         /\ seen' = SeenAfter(targets)
         /\ lastCall' = Returned(IF chartThrows THEN "exception" ELSE "true")
         /\ emitted' = [NoEmissions EXCEPT
                !.gate = 1, !.timestamp = 1, !.status = status, !.chart = chart,
                !.table = IF skipsTable THEN <<>>
                          ELSE IF Len(targets) = 0
                          THEN <<NoDataRow("Scanning for motion...")>>
                          ELSE TableWrites(targets, Len(targets))]
         /\ UNCHANGED <<stateVars, tabVars, bannerVars, issued, limits, historyLength, lastCommandId>>

handleNewData(msg, currentTopic, env) ==
    LET Returned(ret) == [op |-> "handleNewData", msg |-> msg,
                          currentTopic |-> currentTopic, env |-> env, ret |-> ret]
        payload == msg.payload
        targets == IF payload.targetsIsArray
                   THEN MapSeq(normalizeTarget, payload.targets) ELSE <<>>
        history == AppendTargets(EvictAbsent(targetHistory, targets), targets, 1)
        status == <<[mode |-> "info",
                     message |-> "Targets Visible: " \o ToString(Len(targets))]>>
        pushesChart == ~(env.isEditing /\ env.isInteracting)
        chartThrows == pushesChart /\ env.chartFails = 1
        chart == IF pushesChart
                 THEN <<UpdateChartCall(targets, history, env.isEditing, chartThrows)>>
                 ELSE <<>>
        skipsTable == chartThrows \/ ~pushesChart
    IN
    IF RejectsFrame(msg, currentTopic, env)
    THEN \* lines 447-449
         /\ lastCall' = Returned("false")
         /\ emitted' = NoEmissions
         /\ UNCHANGED <<stateVars, tabVars, bannerVars, issued, limits, historyLength, lastCommandId, targetHistory,
                        targetsSuppressedByGate, seen>>
    ELSE IF ~env.gate
    THEN \* lines 454-461
         /\ lastCall' = Returned("true")
         /\ IF ~targetsSuppressedByGate
            THEN /\ targetHistory' = NoHistory
                 /\ emitted' = [ClearingEmissions("No targets detected", TRUE,
                                                  env.chartFails)
                                   EXCEPT !.gate = 1,
                                          !.status = <<[mode |-> "info",
                                                        message |-> "No active occupancy"]>>]
            ELSE /\ emitted' = [NoEmissions EXCEPT !.gate = 1]
                 /\ UNCHANGED targetHistory
         /\ targetsSuppressedByGate' = TRUE
         /\ seen' = NoHistory
         /\ UNCHANGED <<stateVars, tabVars, bannerVars, issued, limits, historyLength, lastCommandId>>
    ELSE \* lines 462-546
         /\ \A id \in DOMAIN seen : Len(seen[id].frames) < MaxRun
         /\ targetsSuppressedByGate' = FALSE
         /\ targetHistory' = history
         /\ seen' = SeenAfter(targets)
         /\ lastCall' = Returned(IF chartThrows THEN "exception" ELSE "true")
         /\ emitted' = [NoEmissions EXCEPT
                !.gate = 1, !.timestamp = 1, !.status = status, !.chart = chart,
                !.table = IF skipsTable THEN <<>>
                          ELSE IF Len(targets) = 0
                          THEN <<NoDataRow("Scanning for motion...")>>
                          ELSE TableWrites(targets, Len(targets))]
         /\ UNCHANGED <<stateVars, tabVars, bannerVars, issued, limits, historyLength, lastCommandId>>

\* Mutant of resetHistory: the suppression flag is left as it was.
resetHistoryKeepingFlag ==
    /\ lastCall' = [op |-> "resetHistory"]
    /\ targetHistory' = NoHistory
    /\ emitted' = [NoEmissions EXCEPT !.table = <<NoDataRow("No targets detected")>>]
    /\ seen' = NoHistory
    /\ UNCHANGED <<stateVars, tabVars, bannerVars, issued, limits, historyLength, lastCommandId,
                   targetsSuppressedByGate>>

\* Mutant of resetHistory: the pending command is forgotten as well.
resetHistoryClearingCommand ==
    /\ lastCall' = [op |-> "resetHistory"]
    /\ targetHistory' = NoHistory
    /\ targetsSuppressedByGate' = FALSE
    /\ lastCommandId' = Idle
    /\ emitted' = [NoEmissions EXCEPT !.table = <<NoDataRow("No targets detected")>>]
    /\ seen' = NoHistory
    /\ UNCHANGED <<stateVars, tabVars, bannerVars, issued, limits, historyLength>>

resetHistory ==
    /\ lastCall' = [op |-> "resetHistory"]
    /\ targetHistory' = NoHistory
    /\ targetsSuppressedByGate' = FALSE
    /\ emitted' = [NoEmissions EXCEPT !.table = <<NoDataRow("No targets detected")>>]
    /\ seen' = NoHistory
    /\ UNCHANGED <<stateVars, tabVars, bannerVars, issued, limits, historyLength, lastCommandId>>

\* Arguments of clearTargetVisualization and the state of the chart during
\* the call; message "" is an absent one.
ClearCalls ==
    [message : {"", "Select a device"}, chartAvailable : {TRUE}, chartFails : 0..2]
    \cup [message : {"", "Select a device"}, chartAvailable : {FALSE}, chartFails : {0}]

clearTargetVisualization(message, chartAvailable, chartFails) ==
    /\ lastCall' = [op |-> "clearTargetVisualization", message |-> message,
                    env |-> [chartAvailable |-> chartAvailable, chartFails |-> chartFails]]
    /\ targetHistory' = NoHistory
    /\ emitted' = ClearingEmissions(message, chartAvailable, chartFails)
    /\ seen' = NoHistory
    /\ UNCHANGED <<stateVars, tabVars, bannerVars, issued, limits, historyLength, lastCommandId, targetsSuppressedByGate>>

NextFrames ==
    \/ \E c \in FrameCalls : handleNewData(c.msg, c.currentTopic, c.env)
    \/ resetHistory
    \/ \E c \in ClearCalls : clearTargetVisualization(c.message, c.chartAvailable,
                                                      c.chartFails)

SpecFrames == InitFrames /\ [][NextFrames]_vars

(***************************************************************************)
(* The entry points of the zones module in any order: the page calls the   *)
(* geometry functions, the command tracker and the render coordinator as   *)
(* its events arrive.                                                      *)
(***************************************************************************)
\* A geometry function called in any state of the module.
normalizeZoneConfigCalled(rawConfig, options) ==
    /\ lastCall' = [op |-> "normalizeZoneConfig", rawConfig |-> rawConfig,
                    options |-> options,
                    ret |-> normalizeZoneConfig(rawConfig, options)]
    /\ emitted' = NoEmissions
    /\ UNCHANGED <<stateVars, zoneVars, tabVars>>
validateZoneConfigCalled(rawConfig, options) ==
    /\ lastCall' = [op |-> "validateZoneConfig", rawConfig |-> rawConfig,
                    options |-> options,
                    ret |-> validateZoneConfig(rawConfig, options)]
    /\ emitted' = NoEmissions
    /\ UNCHANGED <<stateVars, zoneVars, tabVars>>
buildAreaPayloadCalled(areaKey, rawConfig) ==
    /\ lastCall' = [op |-> "buildAreaPayload", areaKey |-> areaKey,
                    rawConfig |-> rawConfig,
                    ret |-> buildAreaPayload(areaKey, rawConfig)]
    /\ emitted' = NoEmissions
    /\ UNCHANGED <<stateVars, zoneVars, tabVars>>

\* The frames of the page: the frame of the tests, accepted, suppressed or
\* rejected for a foreign topic, and a frame without targets.
ZoneFrameCalls ==
    { PassingCall,
      [PassingCall EXCEPT !.msg.payload.targets = <<>>],
      [PassingCall EXCEPT !.env.gate = FALSE],
      [PassingCall EXCEPT !.currentTopic = TopicB] }

\* The command results of the page: none, an acceptance and a failure.
ZoneCommandResults ==
    { r \in CommandResults :
        \/ r.isNull
        \/ /\ r.action = "send_command" /\ r.status \in {"sent", "error"}
           /\ r.controlID = "mmwave_control_commands" /\ r.action_id = "3"
           /\ r.message = "Device offline" }

NextZones ==
    \/ \E rawConfig \in TestRawConfigs, options \in OptionRecords :
          normalizeZoneConfigCalled(rawConfig, options)
    \/ \E rawConfig \in TestRawConfigs, allowZeroSpan \in OptionValues :
          validateZoneConfigCalled(rawConfig, [allowZeroSpan |-> allowZeroSpan])
    \/ \E areaKey \in AreaKeys, rawConfig \in TestRawConfigs :
          buildAreaPayloadCalled(areaKey, rawConfig)
    \/ \E actionId \in TrackedIdValues : setPendingCommand(actionId)
    \/ \E zones \in ZoneLists : handleInterferenceZones(zones)
    \/ clearPendingCommand
    \/ \E result \in ZoneCommandResults : handleCommandResult(result)
    \/ \E c \in ZoneFrameCalls : handleNewData(c.msg, c.currentTopic, c.env)
    \/ resetHistory
    \/ \E c \in ClearCalls : clearTargetVisualization(c.message, c.chartAvailable,
                                                      c.chartFails)

SpecZones == InitCommands /\ [][NextZones]_vars

(***************************************************************************)
(* Claims about the geometry functions, checked under SpecGeometry.        *)
(***************************************************************************)
IsNormalizeCall == lastCall.op = "normalizeZoneConfig"
IsValidateCall == lastCall.op = "validateZoneConfig"
IsBuildCall == lastCall.op = "buildAreaPayload"

\* The three axes of a normalized config, each with its configured bounds.
AxesOf(config) ==
    { [min |-> config.x_min, max |-> config.x_max, lo |-> limits.xMin, hi |-> limits.xMax],
      [min |-> config.y_min, max |-> config.y_max, lo |-> limits.yMin, hi |-> limits.yMax],
      [min |-> config.z_min, max |-> config.z_max, lo |-> limits.zMin, hi |-> limits.zMax] }
\* The raw pairs of a raw config, each with its configured bounds.
RawAxesOf(raw) ==
    { [min |-> raw.x_min, max |-> raw.x_max, lo |-> limits.xMin, hi |-> limits.xMax],
      [min |-> raw.y_min, max |-> raw.y_max, lo |-> limits.yMin, hi |-> limits.yMax],
      [min |-> raw.z_min, max |-> raw.z_max, lo |-> limits.zMin, hi |-> limits.zMax] }
InBounds(a) == a.min <= a.max /\ a.lo <= a.min /\ a.max <= a.hi

\* C1 as stated: for every raw config and every combination of allowZeroSpan
\* and clampToBounds, the output of normalizeZoneConfig has, on each axis,
\* min <= max and both within [axisMin, axisMax].
C1_AlwaysInBounds ==
    IsNormalizeCall => \A a \in AxesOf(lastCall.ret) : InBounds(a)

\* C1 as amended: the output of normalizeZoneConfig has min <= max on each
\* axis for every raw config and every combination of the options; min and
\* max lie within [axisMin, axisMax] on an axis when clampToBounds is not
\* false, axisMin <= axisMax and either allowZeroSpan is true or the axis is
\* at least minSpan wide.
C1_SortedAndInBoundsWhenClamped ==
    IsNormalizeCall =>
        \A a \in AxesOf(lastCall.ret) :
            /\ a.min <= a.max
            /\ ( /\ ClampToBoundsOf(lastCall.options)
                 /\ a.lo <= a.hi
                 /\ (AllowZeroSpanOf(lastCall.options) \/ a.hi - a.lo >= limits.minSpan) )
               => InBounds(a)

\* C1 witness: a clamping call whose raw x pair lies beyond xMax and is
\* narrower than minSpan.
C1_Witness ==
    /\ IsNormalizeCall
    /\ limits = SmallLimits
    /\ lastCall.options = [allowZeroSpan |-> "false", clampToBounds |-> "undefined"]
    /\ lastCall.rawConfig.x_min = Num(MaxRaw)
    /\ lastCall.rawConfig.x_max = Half(MaxRaw)
    /\ lastCall.ret.x_max = limits.xMax

\* C2: when allowZeroSpan is not true, the output of normalizeZoneConfig has
\* max - min >= minSpan on every axis, for every raw input and either value
\* of clampToBounds.
C2_MinSpanOnEveryAxis ==
    (IsNormalizeCall /\ ~AllowZeroSpanOf(lastCall.options)) =>
        \A a \in AxesOf(lastCall.ret) : a.max - a.min >= limits.minSpan

\* C2 witness: raw min equal to raw max on the upper bound of a narrow axis,
\* without clamping.
C2_Witness ==
    /\ IsNormalizeCall
    /\ limits = NarrowLimits
    /\ lastCall.options = [allowZeroSpan |-> "false", clampToBounds |-> "false"]
    /\ lastCall.rawConfig.y_min = Num(limits.yMax)
    /\ lastCall.rawConfig.y_max = Num(limits.yMax)
    /\ lastCall.ret.y_max - lastCall.ret.y_min = limits.minSpan

\* A raw pair of equal integers inside the axis bounds.
EqualIntegersInBounds(a) ==
    /\ a.min.finite /\ a.min.twice % 2 = 0
    /\ a.max = a.min
    /\ 2 * a.lo <= a.min.twice /\ a.min.twice <= 2 * a.hi
IsRawValues(config, raw) ==
    /\ Num(config.x_min) = raw.x_min /\ Num(config.x_max) = raw.x_max
    /\ Num(config.y_min) = raw.y_min /\ Num(config.y_max) = raw.y_max
    /\ Num(config.z_min) = raw.z_min /\ Num(config.z_max) = raw.z_max

\* C3: when allowZeroSpan is true and, on each axis, raw min and raw max are
\* equal integers inside the axis bounds, normalizeZoneConfig returns the raw
\* values and validateZoneConfig reports valid with those values as
\* normalized.
C3_ZeroSpanIdentity ==
    ( /\ IsNormalizeCall \/ IsValidateCall
      /\ lastCall.options.allowZeroSpan = "true"
      /\ \A a \in RawAxesOf(lastCall.rawConfig) : EqualIntegersInBounds(a) )
    => IF IsNormalizeCall
       THEN IsRawValues(lastCall.ret, lastCall.rawConfig)
       ELSE /\ lastCall.ret.valid = TRUE
            /\ IsRawValues(lastCall.ret.normalized, lastCall.rawConfig)

\* C3 witness: the zero-span config of the tests, validated.
C3_Witness ==
    /\ IsValidateCall
    /\ limits = TestLimits
    /\ lastCall.options.allowZeroSpan = "true"
    /\ lastCall.rawConfig = MkRaw(<<Num(10), Num(10)>>, <<Num(20), Num(20)>>,
                                  <<Num(30), Num(30)>>)
    /\ lastCall.ret.valid

\* C4: buildAreaPayload(areaKey, config) is an object with the one key areaKey
\* whose width/depth/height fields are the x/y/z fields of
\* normalizeZoneConfig(config, {allowZeroSpan: false, clampToBounds: true});
\* each pair comes out min first, at least minSpan apart, and a reversed
\* in-range pair that is wide enough comes out swapped.
C4_PayloadIsNormalizedConfig ==
    IsBuildCall =>
        LET n == normalizeZoneConfig(lastCall.rawConfig,
                     [allowZeroSpan |-> "false", clampToBounds |-> "true"])
            raw == lastCall.rawConfig
        IN  /\ DOMAIN lastCall.ret = {lastCall.areaKey}
            /\ LET area == lastCall.ret[lastCall.areaKey]
               IN  /\ area.width_min = n.x_min /\ area.width_max = n.x_max
                   /\ area.depth_min = n.y_min /\ area.depth_max = n.y_max
                   /\ area.height_min = n.z_min /\ area.height_max = n.z_max
                   /\ area.width_max - area.width_min >= limits.minSpan
                   /\ area.depth_max - area.depth_min >= limits.minSpan
                   /\ area.height_max - area.height_min >= limits.minSpan
                   /\ area.width_min <= area.width_max
                   /\ area.depth_min <= area.depth_max
                   /\ area.height_min <= area.height_max
                   /\ ( /\ raw.x_min.finite /\ raw.x_max.finite
                        /\ raw.x_min.twice % 2 = 0 /\ raw.x_max.twice % 2 = 0
                        /\ raw.x_max.twice >= 2 * limits.xMin
                        /\ raw.x_min.twice <= 2 * limits.xMax
                        /\ raw.x_min.twice - raw.x_max.twice >= 2 * limits.minSpan )
                      => /\ Num(area.width_min) = raw.x_max
                         /\ Num(area.width_max) = raw.x_min

\* C4 witness: the payload of the tests.
C4_Witness ==
    /\ IsBuildCall
    /\ limits = TestLimits
    /\ lastCall.areaKey = "area2"
    /\ lastCall.rawConfig = MkRaw(<<Num(120), Num(40)>>, <<Num(250), Num(50)>>,
                                  <<Num(100), Num(0)>>)
    /\ lastCall.ret["area2"] =
           [width_min |-> 40, width_max |-> 120, depth_min |-> 50, depth_max |-> 250,
            height_min |-> 0, height_max |-> 100]

\* C5: when every axis's configured range is at least minSpan,
\* validateZoneConfig returns valid = true with no errors for every raw input
\* and either allowZeroSpan; the normalized value is inside the axis bounds,
\* and at least minSpan wide on every axis when allowZeroSpan is not true.
C5_ValidateNeverRejects ==
    ( /\ IsValidateCall
      /\ \A a \in AxesOf(lastCall.ret.normalized) : a.hi - a.lo >= limits.minSpan )
    => /\ lastCall.ret.valid = TRUE
       /\ lastCall.ret.errors = <<>>
       /\ \A a \in AxesOf(lastCall.ret.normalized) :
            /\ InBounds(a)
            /\ ~AllowZeroSpanOf(lastCall.options) => a.max - a.min >= limits.minSpan

\* C5 witness: the unsorted, out-of-bounds, too narrow config of the tests.
C5_Witness ==
    /\ IsValidateCall
    /\ limits = TestLimits
    /\ lastCall.options.allowZeroSpan = "false"
    /\ lastCall.rawConfig = MkRaw(<<Num(1000), Num(-900)>>, <<Num(-80), Num(8)>>,
                                  <<Num(11), Num(12)>>)
    /\ lastCall.ret.valid
    /\ lastCall.ret.normalized =
           [x_min |-> -200, x_max |-> 200, y_min |-> 0, y_max |-> 20,
            z_min |-> 2, z_max |-> 22]

(***************************************************************************)
(* Claims about the command lifecycle tracker, checked under SpecCommands. *)
(***************************************************************************)
EmptyZoneList == [isArray |-> TRUE, length |-> 0]

\* C6: from Pending(id), for every id and every zone-list argument,
\* handleInterferenceZones emits exactly one status update and exactly one
\* toast with the same message and leaves no pending id; after
\* setPendingCommand(3), handleInterferenceZones([]) reports a message that
\* starts with "Interference cleared".
C6_CompletionReportedOnce ==
    [][ (lastCommandId # Idle /\ lastCall'.op = "handleInterferenceZones") =>
          /\ Len(emitted'.status) = 1
          /\ Len(emitted'.toast) = 1
          /\ emitted'.status[1].message = emitted'.toast[1].message
          /\ lastCommandId' = Idle
          /\ ( /\ lastCall = [op |-> "setPendingCommand", actionId |-> Num(3)]
               /\ lastCall'.zones = EmptyZoneList )
             => emitted'.status[1].message = "Interference cleared" \o ": zones reset."
      ]_vars

\* C6 witness: the completion of command 3 with an empty zone list has been
\* reported.
C6_Witness ==
    /\ lastCall = [op |-> "handleInterferenceZones", zones |-> EmptyZoneList]
    /\ lastCommandId = Idle
    /\ Len(emitted.toast) = 1
    /\ emitted.toast[1].message = "Interference cleared: zones reset."

\* The outcome table of C7.
C7_ExpectedType(id, zoneCount) ==
    IF id \in {Num(4), Num(5)} THEN "saved"
    ELSE IF id = Num(1) THEN (IF zoneCount = 0 THEN "saved" ELSE "info")
    ELSE IF id = Num(3) THEN (IF zoneCount = 0 THEN "saved" ELSE "error")
    ELSE "info"

\* C7: the outcome reported by handleInterferenceZones is a function of the
\* pending id and the zone count: id 1 is success with 0 zones and otherwise
\* informational, reporting the count; id 3 is success with 0 zones and
\* otherwise an error; ids 4 and 5 are success whatever the count; any other
\* id is the informational "Command completed.".
C7_OutcomeByIdAndCount ==
    [][ (lastCommandId # Idle /\ lastCall'.op = "handleInterferenceZones") =>
          LET id == lastCommandId[1]
              n == IF lastCall'.zones.isArray THEN lastCall'.zones.length ELSE 0
              expected == C7_ExpectedType(id, n)
          IN  /\ emitted'.banner = <<[message |-> emitted'.status[1].message,
                                      type |-> expected]>>
              /\ emitted'.status[1].mode = expected
              /\ emitted'.toast[1].mode = expected
              /\ (id = Num(1) /\ n = 1) =>
                    emitted'.status[1].message =
                        "Auto-config complete: found 1 interference zone."
              /\ (id = Num(1) /\ n > 1) =>
                    emitted'.status[1].message =
                        "Auto-config complete: found " \o ToString(n)
                        \o " interference zones."
              /\ (id = Num(4) /\ n > 0) =>
                    emitted'.status[1].message = "Detection zone reset command completed."
              /\ (id = Num(5) /\ n > 0) =>
                    emitted'.status[1].message = "Stay zone clear command completed."
              /\ id \notin {Num(1), Num(3), Num(4), Num(5)} =>
                    emitted'.status[1].message = "Command completed."
      ]_vars

\* C7 witness: a clear command answered with zones still reported.
C7_Witness ==
    /\ lastCall.op = "handleInterferenceZones"
    /\ lastCall.zones.length = MaxZones
    /\ Len(emitted.status) = 1
    /\ emitted.status[1].mode = "error"

(***************************************************************************)
(* Claims about the render coordinator, under SpecFrames.                  *)
(***************************************************************************)
IsFrameCall(call) == call.op = "handleNewData"

IsRejectedFrame(call) ==
    /\ IsFrameCall(call)
    /\ \/ call.msg.isNull \/ call.msg.topic = "" \/ ~call.msg.hasPayload
       \/ call.currentTopic = "" \/ call.msg.topic # call.currentTopic
       \/ ~call.env.chartAvailable

IsSuppressedFrame(call) ==
    IsFrameCall(call) /\ ~IsRejectedFrame(call) /\ ~call.env.gate

IsAcceptedFrame(call) ==
    IsFrameCall(call) /\ ~IsRejectedFrame(call) /\ call.env.gate

\* The ids of the targets of an accepted frame, as handleNewData reads them.
FrameIdsOf(call) ==
    IF call.msg.payload.targetsIsArray
    THEN {toRoundedInt(call.msg.payload.targets[i].id, 0) :
            i \in 1..Len(call.msg.payload.targets)}
    ELSE {}

\* The chart series that were the subject of a clearing call, whether or
\* not the call threw.
ClearedSeries(chart) ==
    UNION { {chart[i].series[j] : j \in 1..Len(chart[i].series)} :
              i \in {k \in 1..Len(chart) :
                       /\ chart[k].kind = "restyle"
                       /\ chart[k].data.x = <<<<>>>>
                       /\ chart[k].data.y = <<<<>>>>} }

\* What C8 and its amended form share: a suppressed frame is handled; the
\* first one empties the history, writes the empty-state row and emits the
\* status; one that directly follows a suppressed frame emits nothing.
C8_SuppressedFrameStep ==
    /\ lastCall'.ret = "true"
    /\ ~targetsSuppressedByGate =>
          /\ targetHistory' = NoHistory
          /\ emitted'.table = <<NoDataRow("No targets detected")>>
          /\ NoDataRow("No targets detected")
                = "<tr><td colspan=\"5\" class=\"no-data\">No targets detected</td></tr>"
          /\ emitted'.status = <<[mode |-> "info", message |-> "No active occupancy"]>>
    /\ IsSuppressedFrame(lastCall) =>
          /\ emitted'.chart = <<>>
          /\ emitted'.table = <<>>
          /\ emitted'.status = <<>>
          /\ targetHistory' = targetHistory

\* C8 as stated: a frame for the selected topic recorded while the gate
\* returns false is handled; the first such frame clears both chart series,
\* empties the target history, shows 'No targets detected' in the table and
\* emits the info status 'No active occupancy'; a suppressed frame directly
\* after it is handled with no chart call, no table write and no status.
C8_FirstSuppressedFrameClearsBothSeries ==
    [][ IsSuppressedFrame(lastCall') =>
          /\ C8_SuppressedFrameStep
          /\ ~targetsSuppressedByGate => ClearedSeries(emitted'.chart) = {0, 1}
      ]_vars

\* C8 amended: as C8, but the first suppressed frame makes the clearing call
\* for series 0 and makes the one for series 1 only if the first call did
\* not throw; it makes no other chart call.
C8_SuppressedFrameClearsOnce ==
    [][ IsSuppressedFrame(lastCall') =>
          /\ C8_SuppressedFrameStep
          /\ ~targetsSuppressedByGate =>
                /\ Len(emitted'.chart) \in {1, 2}
                /\ ClearedSeries(emitted'.chart) =
                      IF emitted'.chart[1].threw THEN {0} ELSE {0, 1}
                /\ Len(emitted'.chart) = 2 => ~emitted'.chart[1].threw
      ]_vars

\* C8 witness: a first suppressed frame whose first clearing call threw.
C8_Witness ==
    /\ IsSuppressedFrame(lastCall)
    /\ lastCall.ret = "true"
    /\ targetsSuppressedByGate
    /\ emitted.status = <<[mode |-> "info", message |-> "No active occupancy"]>>
    /\ Len(emitted.chart) = 1
    /\ emitted.chart[1].threw

\* What C9 and its amended form share: after an accepted frame the ids with
\* a trail are the ids of the frame.
C9_TrailsAreOfFrameIds ==
    IsAcceptedFrame(lastCall) => DOMAIN targetHistory = FrameIdsOf(lastCall)

\* C9 as stated: after every accepted frame the ids with a trail are the ids
\* of the frame, and a target that was absent from one frame and is back in
\* the next has a trail of exactly one point.
C9_ReappearsWithOnePoint ==
    /\ C9_TrailsAreOfFrameIds
    /\ \A id \in DOMAIN seen :
          seen[id].returned =>
             /\ id \in DOMAIN targetHistory
             /\ Len(targetHistory[id]) = 1

\* C9 amended: after every accepted frame the ids with a trail are the ids
\* of the frame, and a target that was absent from one frame and is back in
\* the next has a trail of the last min(n, historyLength) of its n positions
\* in the frame it is back in: one point when the frame holds the id once and
\* historyLength >= 1.
C9_ReappearsWithPointsOfFrame ==
    /\ C9_TrailsAreOfFrameIds
    /\ \A id \in DOMAIN seen :
          seen[id].returned =>
             LET points == seen[id].frames[1]
                 n == Len(points)
                 kept == Min2(n, historyLength)
             IN  /\ Len(seen[id].frames) = 1
                 /\ id \in DOMAIN targetHistory
                 /\ targetHistory[id] = SubSeq(points, n - kept + 1, n)
                 /\ (n = 1 /\ historyLength >= 1) => Len(targetHistory[id]) = 1

\* C9 witness: an accepted frame brought back an id that the frame before it
\* had evicted, and the id has a trail of one point, while another id that
\* the frame does not hold has none.
C9_Witness ==
    /\ IsAcceptedFrame(lastCall)
    /\ \E id \in DOMAIN seen :
          /\ seen[id].returned
          /\ id \in DOMAIN targetHistory
          /\ Len(targetHistory[id]) = 1
    /\ \E id \in DOMAIN seen : id \notin DOMAIN targetHistory

\* All the entries of a run, in arrival order.
RECURSIVE Concat(_)
Concat(frames) ==
    IF frames = <<>> THEN <<>> ELSE Head(frames) \o Concat(Tail(frames))

\* The last n elements of a sequence.
LastN(seq, n) == SubSeq(seq, Len(seq) - n + 1, Len(seq))

\* What C10 and its amended form share: with historyLength >= 1 a trail has
\* between 1 and historyLength points.
C10_TrailLengthInRange ==
    historyLength >= 1 =>
       \A id \in DOMAIN targetHistory :
          /\ Len(targetHistory[id]) >= 1
          /\ Len(targetHistory[id]) <= historyLength

\* C10 as stated: with historyLength >= 1 every trail has between 1 and
\* historyLength points, and the trail of a target present in k consecutive
\* accepted frames is its last min(k, historyLength) positions, oldest first.
C10_TrailIsLastKPositions ==
    /\ C10_TrailLengthInRange
    /\ historyLength >= 1 =>
          \A id \in DOMAIN targetHistory :
             /\ id \in DOMAIN seen
             /\ LET k == Len(seen[id].frames)
                IN  targetHistory[id]
                       = LastN(Concat(seen[id].frames), Min2(k, historyLength))

\* C10 amended: with historyLength >= 1 every trail has between 1 and
\* historyLength points, and the trail of an id is the last
\* min(n, historyLength) of the n positions that the targets with that id had
\* in its run of consecutive accepted frames, oldest first; n is the number
\* of frames k when every frame of the run holds the id once.
C10_TrailIsLastPositions ==
    /\ C10_TrailLengthInRange
    /\ historyLength >= 1 =>
          \A id \in DOMAIN targetHistory :
             /\ id \in DOMAIN seen
             /\ LET k == Len(seen[id].frames)
                    points == Concat(seen[id].frames)
                    n == Len(points)
                IN  /\ targetHistory[id] = LastN(points, Min2(n, historyLength))
                    /\ (\A f \in 1..k : Len(seen[id].frames[f]) = 1) => n = k

\* C10 witness: an id was in more consecutive accepted frames than
\* historyLength, at different positions, once in each, and its trail is full.
C10_Witness ==
    /\ historyLength >= 1
    /\ \E id \in DOMAIN targetHistory :
          /\ Len(seen[id].frames) > historyLength
          /\ \A f \in 1..Len(seen[id].frames) : Len(seen[id].frames[f]) = 1
          /\ seen[id].frames[1] # seen[id].frames[2]
          /\ Len(targetHistory[id]) = historyLength

\* Some chart call of the most recent call threw.
SomeChartCallThrew == \E i \in 1..Len(emitted.chart) : emitted.chart[i].threw

\* C11: when a chart call (restyle or react) throws during handleNewData, on
\* a suppressed or on an accepted frame, handleNewData still returns true and,
\* on an accepted frame, the table is still rebuilt.
C11_ChartFailureIsDiscarded ==
    (IsFrameCall(lastCall) /\ SomeChartCallThrew) =>
       /\ lastCall.ret = "true"
       /\ IsAcceptedFrame(lastCall) => emitted.table # <<>>

\* C12: handleNewData returns false and touches nothing (target history,
\* suppression flag, chart, table, status sink; the gate predicate is not
\* consulted) whenever the message, its topic or its payload is absent, the
\* expected topic is absent or differs from the frame's topic, or the chart
\* surface is unavailable.
C12_RejectedFrameHasNoEffect ==
    [][ IsRejectedFrame(lastCall') =>
          /\ lastCall'.ret = "false"
          /\ targetHistory' = targetHistory
          /\ targetsSuppressedByGate' = targetsSuppressedByGate
          /\ historyLength' = historyLength
          /\ lastCommandId' = lastCommandId
          /\ emitted' = NoEmissions
          /\ emitted'.chart = <<>> /\ emitted'.table = <<>> /\ emitted'.status = <<>>
          /\ emitted'.gate = 0 /\ emitted'.timestamp = 0
      ]_vars

\* C12 witness: a frame was rejected for want of a chart surface while trails
\* were held.
C12_Witness ==
    /\ IsRejectedFrame(lastCall)
    /\ ~lastCall.env.chartAvailable
    /\ lastCall.ret = "false"
    /\ targetHistory # NoHistory
    /\ emitted = NoEmissions

(***************************************************************************)
(* The state module (window.SwitchStudioState): staged parameter changes.  *)
(* The page has one plain input element per parameter, registered in the   *)
(* document under the parameter's name; an element keeps the value that    *)
(* is assigned to it.  init is given all the elements it asks for.         *)
(***************************************************************************)
BrightnessParam == "ledIntensityWhenOn"
ColorParam == "ledColorWhenOn"

\* A value is a JavaScript number or string, with its String() form.
NumberValue(str) == [type |-> "number", str |-> str]
StringValue(str) == [type |-> "string", str |-> str]

\* The values that the device reports for a parameter and the values that
\* the user stages for it.
DeviceValues(param) ==
    IF param = BrightnessParam THEN {NumberValue("101"), NumberValue("12")}
    ELSE {NumberValue("21")}
StagedValues(param) ==
    IF param = BrightnessParam
    THEN {NumberValue("101"), NumberValue("12"), StringValue("12")}
    ELSE {NumberValue("21"), NumberValue("170")}

\* Number(value) for the values of the model: <<>> is NaN.
NumberOf(value) ==
    IF value.type = "number" \/ value.str \in {"12", "21", "101", "170"}
    THEN <<value.str>>
    ELSE IF value.str = "" THEN <<"0">> ELSE <<>>

\* Mutant of valuesEqual: strict equality.
valuesEqualStrict(a, b) == a = b

\* Lines 28-43, for numbers and strings.
valuesEqual(a, b) ==
    IF /\ (a.type = "number" \/ b.type = "number")
       /\ NumberOf(a) # <<>> /\ NumberOf(b) # <<>>
    THEN NumberOf(a) = NumberOf(b)
    ELSE a.str = b.str

\* The entries of a Map, as a sequence in insertion order.
HasKey(entries, key) == \E i \in 1..Len(entries) : entries[i].param = key
IndexOfKey(entries, key) == CHOOSE i \in 1..Len(entries) : entries[i].param = key
MapGet(entries, key) == entries[IndexOfKey(entries, key)].value
MapSet(entries, key, value) ==
    IF HasKey(entries, key)
    THEN [entries EXCEPT ![IndexOfKey(entries, key)].value = value]
    ELSE Append(entries, [param |-> key, value |-> value])
MapDelete(entries, key) ==
    IF HasKey(entries, key)
    THEN LET i == IndexOfKey(entries, key)
         IN  SubSeq(entries, 1, i - 1) \o SubSeq(entries, i + 1, Len(entries))
    ELSE entries
MapKeys(entries) == {entries[i].param : i \in 1..Len(entries)}

\* An object with one more key, or with a new value for a key it has.
ObjectSet(object, key, value) ==
    [k \in (DOMAIN object) \cup {key} |-> IF k = key THEN value ELSE object[k]]

\* Lines 110-114 of setInputValue for a plain input: what the element shows
\* for a value; known is <<>> for undefined.
ShownFor(known) == IF known = <<>> THEN EmptyText ELSE known[1]
ValueIn(object, key) == IF key \in DOMAIN object THEN <<object[key]>> ELSE <<>>

\* Mutant of updateDirtyUi: the Discard button is disabled when changes are
\* pending and enabled when none is.
updateDirtyUiDiscardInverted(pending) ==
    LET count == Len(pending)
        isDirty == count > 0
    IN  [active |-> isDirty,
         text |-> IF isDirty
                  THEN ToString(count) \o " pending change"
                       \o (IF count = 1 THEN "" ELSE "s")
                  ELSE "No pending changes",
         applyDisabled |-> ~isDirty,
         discardDisabled |-> isDirty]

\* Lines 120-130: the dirty bar and the buttons for a Map of pending changes.
updateDirtyUi(pending) ==
    LET count == Len(pending)
        isDirty == count > 0
    IN  [active |-> isDirty,
         text |-> IF isDirty
                  THEN ToString(count) \o " pending change"
                       \o (IF count = 1 THEN "" ELSE "s")
                  ELSE "No pending changes",
         applyDisabled |-> ~isDirty,
         discardDisabled |-> ~isDirty]

\* init(options) of the state module: options.socket is a socket or absent.
StateInit(socketOption) ==
    /\ FirstCall
    /\ lastCall' = [op |-> "SwitchStudioState.init", socket |-> socketOption]
    /\ socket' = socketOption
    /\ dirtyUi' = updateDirtyUi(pendingChanges)
    /\ emitted' = NoEmissions
    /\ UNCHANGED <<zoneVars, tabVars, pendingChanges, latestConfig, inputElements,
                   inputs, recorded, staged>>

\* The user puts a value in the input of a parameter and the page calls
\* queueChange(param, value, inputElement) with that input; param "" is the
\* call with an empty param, which no input belongs to.
queueChange(param, value) ==
    /\ ~FirstCall
    /\ lastCall' = [op |-> "queueChange", param |-> param, value |-> value]
    /\ emitted' = NoEmissions
    /\ IF param = ""
       THEN UNCHANGED <<pendingChanges, inputElements, inputs, dirtyUi, staged>>
       ELSE LET baseline == ValueIn(latestConfig, param)
                pending == IF baseline # <<>> /\ valuesEqual(baseline[1], value)
                           THEN MapDelete(pendingChanges, param)
                           ELSE MapSet(pendingChanges, param, value)
            IN  /\ inputs' = [inputs EXCEPT ![param] = value]
                /\ inputElements' = ObjectSet(inputElements, param, "element")
                /\ pendingChanges' = pending
                /\ dirtyUi' = updateDirtyUi(pending)
                /\ staged' = IF HasKey(pending, param)
                             THEN (IF \E i \in 1..Len(staged) : staged[i] = param
                                   THEN staged ELSE Append(staged, param))
                             ELSE SelectSeq(staged, LAMBDA q : q # param)
    /\ UNCHANGED <<zoneVars, tabVars, latestConfig, socket, recorded>>

\* The values of Date.now() during applyPendingChanges.
BatchIds == {1, 2}

\* Mutant of UpdateMessages: the entries are sent last first.
UpdateMessagesReversed(entries, batchId) ==
    [i \in 1..Len(entries) |->
        LET e == entries[Len(entries) + 1 - i]
        IN  [event |-> "update_parameter", param |-> e.param, value |-> e.value,
             request_id |-> "apply-" \o ToString(batchId) \o "-" \o ToString(i - 1)
                            \o "-" \o e.param]]

\* Lines 182-187: one socket message per entry, in the order of the entries.
UpdateMessages(entries, batchId) ==
    [i \in 1..Len(entries) |->
        [event |-> "update_parameter", param |-> entries[i].param,
         value |-> entries[i].value,
         request_id |-> "apply-" \o ToString(batchId) \o "-" \o ToString(i - 1)
                        \o "-" \o entries[i].param]]

\* History variable: last is the value that syncConfig or applyPendingChanges
\* recorded last for a parameter, bySync the value that syncConfig delivered
\* last for it (<<>> when none was).
RECURSIVE RecordedAfterApply(_, _)
RecordedAfterApply(history, entries) ==
    IF entries = <<>> THEN history
    ELSE LET e == Head(entries)
             bySync == IF e.param \in DOMAIN history THEN history[e.param].bySync ELSE <<>>
         IN  RecordedAfterApply(
                 ObjectSet(history, e.param, [bySync |-> bySync, last |-> e.value]),
                 Tail(entries))
RecordedAfterSync(history, entries) ==
    [k \in (DOMAIN history) \cup (DOMAIN entries) |->
        IF k \in DOMAIN entries
        THEN [bySync |-> <<entries[k]>>, last |-> entries[k]]
        ELSE history[k]]

\* Line 188 for every entry: the values sent become the latest known ones.
RECURSIVE RecordSent(_, _)
RecordSent(config, entries) ==
    IF entries = <<>> THEN config
    ELSE RecordSent(ObjectSet(config, Head(entries).param, Head(entries).value),
                    Tail(entries))

applyPendingChanges(batchId) ==
    /\ ~FirstCall
    /\ lastCall' = [op |-> "applyPendingChanges", batchId |-> batchId]
    /\ IF socket = "null" \/ Len(pendingChanges) = 0
       THEN /\ emitted' = NoEmissions
            /\ UNCHANGED <<pendingChanges, latestConfig, dirtyUi, recorded, staged>>
       ELSE LET entries == pendingChanges
                n == Len(entries)
            IN  /\ latestConfig' = RecordSent(latestConfig, entries)
                /\ recorded' = RecordedAfterApply(recorded, entries)
                /\ staged' = <<>>
                /\ pendingChanges' = <<>>
                /\ dirtyUi' = updateDirtyUi(<<>>)
                /\ emitted' = [NoEmissions EXCEPT
                      !.socket = UpdateMessages(entries, batchId),
                      !.status = <<[mode |-> "saved", message |-> "Changes sent"]>>,
                      !.toast = <<[type |-> "saved",
                                   message |-> "Sent " \o ToString(n) \o " change"
                                               \o (IF n = 1 THEN "" ELSE "s") \o ".",
                                   durationMs |-> 1800]>>]
    /\ UNCHANGED <<zoneVars, tabVars, inputElements, socket, inputs>>

\* Mutant of RestoredInputs: the inputs are left as they are.
RestoredInputsNone(shown, pending, config) == shown

\* Lines 200-203: the input of every pending parameter is given the latest
\* known value of the parameter.
RestoredInputs(shown, pending, config) ==
    [p \in DOMAIN shown |->
        IF HasKey(pending, p) THEN ShownFor(ValueIn(config, p)) ELSE shown[p]]

discardPendingChanges ==
    /\ ~FirstCall
    /\ lastCall' = [op |-> "discardPendingChanges"]
    /\ IF Len(pendingChanges) = 0
       THEN /\ emitted' = NoEmissions
            /\ UNCHANGED <<pendingChanges, inputs, dirtyUi, staged>>
       ELSE /\ inputs' = RestoredInputs(inputs, pendingChanges, latestConfig)
            /\ staged' = <<>>
            /\ pendingChanges' = <<>>
            /\ dirtyUi' = updateDirtyUi(<<>>)
            /\ emitted' = [NoEmissions EXCEPT
                  !.status = <<[mode |-> "info",
                                message |-> "Pending changes discarded"]>>,
                  !.toast = <<[type |-> "info",
                               message |-> "Discarded pending changes.",
                               durationMs |-> 1800]>>]
    /\ UNCHANGED <<zoneVars, tabVars, latestConfig, inputElements, socket, recorded>>

\* The arguments of syncConfig: an object with a value for some of the
\* parameters, or something that is not an object.
ConfigPayloads ==
    { [kind |-> "object", entries |-> e] :
        e \in UNION { [ks -> UNION {DeviceValues(p) : p \in Params}] :
                        ks \in SUBSET Params } }
SyncArguments ==
    { c \in ConfigPayloads : \A p \in DOMAIN c.entries : c.entries[p] \in DeviceValues(p) }
    \cup { [kind |-> "null", entries |-> NoEntries],
           [kind |-> "string", entries |-> NoEntries] }

\* Mutant of syncConfig: the input of a key is given the value whether or
\* not a change is pending for it.
syncConfigOverwritingPending(configPayload) ==
    /\ ~FirstCall
    /\ lastCall' = [op |-> "syncConfig", configPayload |-> configPayload]
    /\ emitted' = NoEmissions
    /\ IF configPayload.kind # "object"
       THEN UNCHANGED <<latestConfig, inputs, recorded>>
       ELSE LET entries == configPayload.entries
            IN  /\ latestConfig' =
                      [k \in (DOMAIN latestConfig) \cup (DOMAIN entries) |->
                          IF k \in DOMAIN entries THEN entries[k] ELSE latestConfig[k]]
                /\ recorded' = RecordedAfterSync(recorded, entries)
                /\ inputs' = [p \in DOMAIN inputs |->
                                 IF p \in DOMAIN entries
                                 THEN ShownFor(<<entries[p]>>) ELSE inputs[p]]
    /\ UNCHANGED <<zoneVars, tabVars, pendingChanges, inputElements, socket, dirtyUi,
                   staged>>

\* Lines 214-219: every key of the payload is recorded; the input of a key
\* without a pending change is given the value.
syncConfig(configPayload) ==
    /\ ~FirstCall
    /\ lastCall' = [op |-> "syncConfig", configPayload |-> configPayload]
    /\ emitted' = NoEmissions
    /\ IF configPayload.kind # "object"
       THEN UNCHANGED <<latestConfig, inputs, recorded>>
       ELSE LET entries == configPayload.entries
                Merged(object) ==
                    [k \in (DOMAIN object) \cup (DOMAIN entries) |->
                        IF k \in DOMAIN entries THEN entries[k] ELSE object[k]]
            IN  /\ latestConfig' = Merged(latestConfig)
                /\ recorded' = RecordedAfterSync(recorded, entries)
                /\ inputs' = [p \in DOMAIN inputs |->
                                 IF p \in DOMAIN entries /\ ~HasKey(pendingChanges, p)
                                 THEN ShownFor(<<entries[p]>>) ELSE inputs[p]]
    /\ UNCHANGED <<zoneVars, tabVars, pendingChanges, inputElements, socket, dirtyUi,
                   staged>>

resetForDeviceChange ==
    /\ ~FirstCall
    /\ lastCall' = [op |-> "resetForDeviceChange"]
    /\ emitted' = NoEmissions
    /\ pendingChanges' = <<>>
    /\ inputElements' = NoEntries
    /\ dirtyUi' = updateDirtyUi(<<>>)
    /\ staged' = <<>>
    /\ UNCHANGED <<zoneVars, tabVars, latestConfig, socket, inputs, recorded>>

\* The zones module is initialized with its defaults and left alone.
InitChanges ==
    /\ InitState
    /\ limits = DEFAULT_LIMITS
    /\ historyLength = DefaultHistoryLength

NextChanges ==
    \/ \E s \in {"socket", "null"} : StateInit(s)
    \/ \E p \in Params \cup {""} :
          \E v \in StagedValues(IF p = "" THEN BrightnessParam ELSE p) : queueChange(p, v)
    \/ \E b \in BatchIds : applyPendingChanges(b)
    \/ discardPendingChanges
    \/ \E c \in SyncArguments : syncConfig(c)
    \/ resetForDeviceChange

SpecChanges == InitChanges /\ [][NextChanges]_vars

(***************************************************************************)
(* Claims about the state module, under SpecChanges.                       *)
(***************************************************************************)
\* C13 as stated: discardPendingChanges gives every field with a pending
\* change the value that syncConfig delivered last for it, and leaves no
\* pending change.
C13_DiscardRestoresDelivered ==
    [][ lastCall'.op = "discardPendingChanges" =>
          /\ pendingChanges' = <<>>
          /\ \A p \in MapKeys(pendingChanges) :
                (p \in DOMAIN recorded /\ recorded[p].bySync # <<>>) =>
                   inputs'[p] = recorded[p].bySync[1]
      ]_vars

\* C13 amended: discardPendingChanges gives every field with a pending change
\* the value recorded last for it, by syncConfig or by applyPendingChanges
\* when it sent the field's staged value, empties the field when no value was
\* recorded for it, and leaves no pending change.
C13_DiscardRestoresRecorded ==
    [][ lastCall'.op = "discardPendingChanges" =>
          /\ pendingChanges' = <<>>
          /\ \A p \in MapKeys(pendingChanges) :
                inputs'[p] = IF p \in DOMAIN recorded THEN recorded[p].last
                             ELSE EmptyText
          /\ \A p \in Params \ MapKeys(pendingChanges) : inputs'[p] = inputs[p]
      ]_vars

\* C13 witness: changes were discarded and a field shows a value that
\* applyPendingChanges had sent after the last delivery of syncConfig.
C13_Witness ==
    /\ lastCall.op = "discardPendingChanges"
    /\ emitted.status = <<[mode |-> "info", message |-> "Pending changes discarded"]>>
    /\ pendingChanges = <<>>
    /\ \E p \in DOMAIN recorded :
          /\ recorded[p].bySync # <<>>
          /\ recorded[p].bySync[1] # recorded[p].last
          /\ inputs[p] = recorded[p].last

\* C16: after init and after every queueChange, applyPendingChanges,
\* discardPendingChanges, syncConfig or resetForDeviceChange, the dirty bar
\* is active if and only if a change is pending, and the Apply and the
\* Discard button are enabled if and only if a change is pending.
C16_DirtyUiFollowsPending ==
    ~FirstCall =>
       LET isPending == Len(pendingChanges) >= 1
       IN  /\ dirtyUi.active <=> isPending
           /\ ~dirtyUi.applyDisabled <=> isPending
           /\ ~dirtyUi.discardDisabled <=> isPending

\* C16 witness: syncConfig was called while two changes were pending and the
\* bar is active with both buttons enabled.
C16_Witness ==
    /\ lastCall.op = "syncConfig"
    /\ Len(pendingChanges) = 2
    /\ dirtyUi = [active |-> TRUE, text |-> "2 pending changes",
                  applyDisabled |-> FALSE, discardDisabled |-> FALSE]

STORAGE_KEY == "switchStudio.activeTab"

\* A data-tab-panels attribute as its pieces between commas; a piece is a
\* name and whether blanks surround it.  <<>> is the attribute ''.
Piece(name) == [name |-> name, blanks |-> FALSE]
Blanked(name) == [name |-> name, blanks |-> TRUE]

\* Lines 7-13: split(','), trim, filter(Boolean).
parsePanelList(raw) ==
    LET trimmed == [i \in 1..Len(raw) |-> raw[i].name]
    IN  SelectSeq(trimmed, LAMBDA item : item # "")

Button(target) == [target |-> target, active |-> FALSE, ariaSelected |-> ""]
Panel(raw) == [panels |-> raw, display |-> ""]

\* The pages of the model: the page of the tests; a page with panels that
\* list two tabs, one of them with a blank piece; a page with two buttons for
\* one tab; a page whose first button has an empty target; a page without
\* buttons.
TestPage ==
    [buttons |-> <<Button("zones"), Button("load"), Button("led"), Button("advanced")>>,
     panels |-> <<Panel(<<Piece("zones")>>), Panel(<<Piece("load")>>),
                  Panel(<<Piece("led")>>), Panel(<<Piece("advanced")>>), Panel(<<>>)>>]
ListPage ==
    [buttons |-> <<Button("zones"), Button("load"), Button("advanced")>>,
     panels |-> <<Panel(<<Piece("zones"), Blanked("load")>>),
                  Panel(<<Piece("advanced"), Blanked("")>>),
                  Panel(<<Blanked("")>>)>>]
TwinPage ==
    [buttons |-> <<Button("zones"), Button("load"), Button("zones")>>,
     panels |-> <<Panel(<<Piece("zones")>>), Panel(<<Piece("load")>>)>>]
BlankFirstPage ==
    [buttons |-> <<Button(""), Button("load")>>,
     panels |-> <<Panel(<<Piece("load")>>), Panel(<<>>)>>]
NoButtonPage == [buttons |-> <<>>, panels |-> <<Panel(<<Piece("zones")>>)>>]
Pages == {TestPage, ListPage, TwinPage, BlankFirstPage, NoButtonPage}

\* What localStorage holds under STORAGE_KEY when the page loads, and whether
\* getItem and setItem throw.
StoredTabs == {<<>>, <<"zones">>, <<"load">>, <<"advanced">>, <<"live">>,
               <<"presence">>, <<"maintenance">>}
Storages ==
    { [value |-> v, getThrows |-> t[1], setThrows |-> t[2]] :
        v \in StoredTabs, t \in {<<FALSE, FALSE>>, <<FALSE, TRUE>>, <<TRUE, TRUE>>} }

\* options.defaultTab: "" is an absent one.
DefaultTabs == {"", "zones", "load"}

HasButtonFor(buttons, tabName) ==
    \E i \in 1..Len(buttons) : buttons[i].target = tabName

\* Lines 38-56; the result is <<>> for null.
getInitialTab(buttons, store, defaultTab) ==
    IF /\ ~store.getThrows
       /\ store.value # <<>> /\ store.value[1] # ""
       /\ HasButtonFor(buttons, store.value[1])
    THEN store.value
    ELSE IF defaultTab # "" /\ HasButtonFor(buttons, defaultTab)
    THEN <<defaultTab>>
    ELSE IF Len(buttons) > 0 THEN <<buttons[1].target>>
    ELSE <<>>

\* Mutant of ShouldShow: a panel without a list is shown for no tab.
ShouldShowListedOnly(raw, tabName) ==
    \E i \in 1..Len(parsePanelList(raw)) : parsePanelList(raw)[i] = tabName

\* Lines 26-27.
ShouldShow(raw, tabName) ==
    LET targets == parsePanelList(raw)
    IN  Len(targets) = 0 \/ \E i \in 1..Len(targets) : targets[i] = tabName

\* Lines 19-23 and 25-29: the buttons and the panels after applyTab(tabName).
ButtonsFor(buttons, tabName) ==
    [i \in 1..Len(buttons) |->
        [target |-> buttons[i].target,
         active |-> buttons[i].target = tabName,
         ariaSelected |-> IF buttons[i].target = tabName THEN "true" ELSE "false"]]
PanelsFor(panels, tabName) ==
    [i \in 1..Len(panels) |->
        [panels |-> panels[i].panels,
         display |-> IF ShouldShow(panels[i].panels, tabName) THEN "" ELSE "none"]]

\* Lines 31-35.
StorageAfterSet(store, tabName) ==
    IF store.setThrows THEN store ELSE [store EXCEPT !.value = <<tabName>>]

\* Lines 15-36, on the buttons and panels given: tab is <<>> for null.
applyTab(buttons, panels, tab) ==
    IF tab = <<>> \/ tab = <<"">>
    THEN UNCHANGED <<activeTab, storage>> /\ tabButtons' = buttons /\ tabPanels' = panels
    ELSE /\ activeTab' = tab
         /\ tabButtons' = ButtonsFor(buttons, tab[1])
         /\ tabPanels' = PanelsFor(panels, tab[1])
         /\ storage' = StorageAfterSet(storage, tab[1])

\* init(options) of the tabs module: options.root is a page, and
\* options.onTabChange is a function or absent.
TabsInit(page, defaultTab, hasOnTabChange) ==
    LET initial == getInitialTab(page.buttons, storage,
                                 IF defaultTab = "" THEN "live" ELSE defaultTab)
    IN  /\ FirstCall
        /\ lastCall' = [op |-> "SwitchStudioTabs.init", root |-> page,
                        defaultTab |-> defaultTab, onTabChange |-> hasOnTabChange,
                        stored |-> storage.value, getThrows |-> storage.getThrows]
        /\ applyTab(page.buttons, page.panels, initial)
        /\ emitted' = [NoEmissions EXCEPT
              !.tabChange = IF initial # <<>> /\ initial # <<"">> /\ hasOnTabChange
                            THEN initial ELSE <<>>]
        /\ UNCHANGED <<zoneVars, stateVars>>

\* A click on button i (lines 65-72).
ClickTabButton(i) ==
    LET nextTab == tabButtons[i].target
    IN  /\ ~FirstCall
        /\ lastCall' = [op |-> "click", button |-> i,
                        onTabChange |-> lastCall.onTabChange]
        /\ IF nextTab = "" \/ <<nextTab>> = activeTab
           THEN /\ UNCHANGED tabVars
                /\ emitted' = NoEmissions
           ELSE /\ applyTab(tabButtons, tabPanels, <<nextTab>>)
                /\ emitted' = [NoEmissions EXCEPT
                      !.tabChange = IF lastCall.onTabChange THEN <<nextTab>> ELSE <<>>]
        /\ UNCHANGED <<zoneVars, stateVars>>

\* The page loads with a localStorage of Storages; the other modules are
\* left alone.
InitTabs ==
    /\ ZonesLoaded
    /\ limits = DEFAULT_LIMITS
    /\ historyLength = DefaultHistoryLength
    /\ StateLoaded
    /\ TabsLoaded
    /\ storage \in Storages
    /\ issued = Untracked

NextTabs ==
    \/ \E page \in Pages, d \in DefaultTabs, f \in BOOLEAN : TabsInit(page, d, f)
    \/ \E i \in 1..Len(tabButtons) : ClickTabButton(i)

SpecTabs == InitTabs /\ [][NextTabs]_vars

(***************************************************************************)
(* Claims about the tabs module.                                           *)
(***************************************************************************)
IsTabsInit == ~FirstCall /\ lastCall.op = "SwitchStudioTabs.init"

\* The tab a legacy stored value stands for.
LegacyTabs == {"live", "presence", "maintenance"}
RemappedTab(stored) == IF stored = "maintenance" THEN "advanced" ELSE "zones"

\* The buttons that carry the class 'active'.
ActiveButtons == {i \in 1..Len(tabButtons) : tabButtons[i].active}

\* C14: when init finds a legacy value in a readable localStorage and the
\* page has a button for the tab the value stands for ('zones' for 'live' and
\* 'presence', 'advanced' for 'maintenance'), that tab is the active tab and
\* its button is the active button, whatever defaultTab is.
C14_LegacyStoredTabIsRemapped ==
    (/\ IsTabsInit
     /\ ~lastCall.getThrows
     /\ lastCall.stored # <<>>
     /\ lastCall.stored[1] \in LegacyTabs
     /\ HasButtonFor(lastCall.root.buttons, RemappedTab(lastCall.stored[1])))
    => /\ activeTab = <<RemappedTab(lastCall.stored[1])>>
       /\ ActiveButtons # {}
       /\ \A i \in ActiveButtons :
             tabButtons[i].target = RemappedTab(lastCall.stored[1])

\* The page's buttons have targets that are not empty and differ from each
\* other, and there is at least one button.
DistinctTabTargets ==
    /\ Len(tabButtons) > 0
    /\ \A i \in 1..Len(tabButtons) : tabButtons[i].target # ""
    /\ \A i, j \in 1..Len(tabButtons) :
          tabButtons[i].target = tabButtons[j].target => i = j

\* Exactly one button is active, and it is the button of the active tab.
OneActiveButton ==
    /\ Cardinality(ActiveButtons) = 1
    /\ activeTab # <<>>
    /\ ActiveButtons = {i \in 1..Len(tabButtons) : tabButtons[i].target = activeTab[1]}

\* A panel is shown exactly when its attribute names no tab or names the
\* active tab.
PanelsFollowActiveTab ==
    \A i \in 1..Len(tabPanels) :
        LET raw == tabPanels[i].panels
            named == {raw[k].name : k \in 1..Len(raw)} \ {""}
        IN  (tabPanels[i].display = "")
                <=> (named = {} \/ (activeTab # <<>> /\ activeTab[1] \in named))

\* init found no button for the stored tab nor for the default tab.
InitFoundNoNamedButton ==
    /\ IsTabsInit
    /\ \/ lastCall.getThrows
       \/ lastCall.stored = <<>>
       \/ ~HasButtonFor(lastCall.root.buttons, lastCall.stored[1])
    /\ ~HasButtonFor(lastCall.root.buttons,
                     IF lastCall.defaultTab = "" THEN "live" ELSE lastCall.defaultTab)

FirstButtonIsFallback ==
    InitFoundNoNamedButton => activeTab = <<lastCall.root.buttons[1].target>>

\* C15 as stated: after init on a page with at least one button, and after
\* every click since, one button is active and it is the active tab's, the
\* panels follow the active tab, localStorage holds the active tab, and init
\* falls back to the first button.
C15_TabStateIsConsistent ==
    (~FirstCall /\ Len(tabButtons) > 0)
    => /\ OneActiveButton
       /\ PanelsFollowActiveTab
       /\ storage.value = activeTab
       /\ FirstButtonIsFallback

\* C15, amended: the same on a page whose buttons have distinct targets that
\* are not empty, with localStorage holding the active tab when setItem does
\* not throw.
C15_TabStateIsConsistentOnDistinctTargets ==
    (~FirstCall /\ DistinctTabTargets)
    => /\ OneActiveButton
       /\ PanelsFollowActiveTab
       /\ (~storage.setThrows => storage.value = activeTab)
       /\ FirstButtonIsFallback

\* A click has moved the tab to 'load' on the page whose panels list two
\* tabs: one panel is shown by its list, one is hidden, one has a list of
\* blanks only, and the tab has been persisted.
C15_Witness ==
    /\ ~FirstCall
    /\ lastCall.op = "click"
    /\ DistinctTabTargets
    /\ activeTab = <<"load">>
    /\ emitted.tabChange = <<"load">>
    /\ ~storage.setThrows
    /\ storage.value = <<"load">>
    /\ Len(tabPanels) = 3
    /\ tabPanels[1].display = ""
    /\ tabPanels[2].display = "none"
    /\ tabPanels[3].display = ""
    /\ tabPanels[3].panels # <<>>
    /\ tabButtons[2].active

(***************************************************************************)
(* Further claims about the command lifecycle tracker, checked under       *)
(* SpecCommands.                                                           *)
(***************************************************************************)
\* The label of the table for the ids 1, 3, 4 and 5; "" for an id the table
\* does not have.
C18_TableLabel(id) ==
    IF id.twice = 2 THEN "Auto-Config Interference"
    ELSE IF id.twice = 6 THEN "Clear Interference"
    ELSE IF id.twice = 8 THEN "Reset Detection Zones"
    ELSE IF id.twice = 10 THEN "Clear Stay Zones"
    ELSE ""

\* C18: setPendingCommand with an id that is not finite leaves the pending id
\* as it was and emits nothing.  With a finite id it makes that id the pending
\* id, whatever was pending before, and emits one status of mode 'syncing'
\* and one log line "Sent <label>", where the label is the table's for the ids
\* 1, 3, 4 and 5 and "Command <id>" for every other id; no banner and no toast.
C18_SetPendingCommandRecordsAndAnnounces ==
    [][ lastCall'.op = "setPendingCommand" =>
          LET id == lastCall'.actionId
          IN  IF ~id.finite
              THEN /\ lastCommandId' = lastCommandId
                   /\ emitted' = NoEmissions
              ELSE /\ lastCommandId' = <<id>>
                   /\ Len(emitted'.status) = 1
                   /\ emitted'.status[1].mode = "syncing"
                   /\ Len(emitted'.log) = 1
                   /\ emitted'.log[1].message =
                        "Sent " \o (IF C18_TableLabel(id) # "" THEN C18_TableLabel(id)
                                    ELSE "Command " \o NumberToString(id))
                   /\ emitted'.banner = <<>>
                   /\ emitted'.toast = <<>>
      ]_vars

\* C18 witness: command 5 has been announced and is pending.
C18_Witness ==
    /\ lastCall = [op |-> "setPendingCommand", actionId |-> Num(5)]
    /\ lastCommandId = Pending(Num(5))
    /\ emitted.status = <<[mode |-> "syncing", message |-> "Clearing stay zones..."]>>
    /\ emitted.log = <<[message |-> "Sent Clear Stay Zones", type |-> "syncing"]>>

\* C19: handleInterferenceZones without a pending id emits nothing and
\* leaves no pending id, for every argument; so does a handleInterferenceZones
\* that follows another one with no setPendingCommand in between.
C19_IdleResultIsIgnored ==
    [][ /\ (lastCommandId = Idle /\ lastCall'.op = "handleInterferenceZones")
           => (emitted' = NoEmissions /\ lastCommandId' = Idle)
        /\ (lastCall.op = "handleInterferenceZones"
            /\ lastCall'.op = "handleInterferenceZones")
           => (emitted' = NoEmissions /\ lastCommandId' = Idle)
      ]_vars

\* C19 witness: a list of two zones has arrived with nothing pending.
C19_Witness ==
    /\ lastCall = [op |-> "handleInterferenceZones",
                   zones |-> [isArray |-> TRUE, length |-> 2]]
    /\ lastCommandId = Idle
    /\ emitted = NoEmissions

\* C20: clearPendingCommand leaves no pending id and emits nothing, whatever
\* was pending; a handleInterferenceZones right after it emits nothing.
C20_ClearPendingCommandIsSilent ==
    [][ /\ lastCall'.op = "clearPendingCommand"
           => (lastCommandId' = Idle /\ emitted' = NoEmissions)
        /\ (lastCall.op = "clearPendingCommand"
            /\ lastCall'.op = "handleInterferenceZones")
           => (emitted' = NoEmissions /\ lastCommandId' = Idle)
      ]_vars

\* C20 witness: the pending id has been cleared.
C20_Witness ==
    /\ lastCall = [op |-> "clearPendingCommand"]
    /\ lastCommandId = Idle
    /\ emitted = NoEmissions

IsCommandResultCall == lastCall.op = "handleCommandResult"

\* What a handleCommandResult call has emitted for an accepted command: one
\* log line and one toast, no status; and for a failed one: one log line, one
\* status of mode 'error' and one toast that stays longer than the toast of
\* an accepted command.
C21_AcceptanceReported ==
    /\ Len(emitted.log) = 1
    /\ emitted.log[1].type = "saved"
    /\ Len(emitted.toast) = 1
    /\ emitted.toast[1].timeoutMs = 1600
    /\ emitted.status = <<>>
C21_FailureReported ==
    /\ Len(emitted.log) = 1
    /\ emitted.log[1].type = "error"
    /\ Len(emitted.status) = 1
    /\ emitted.status[1].mode = "error"
    /\ Len(emitted.toast) = 1
    /\ emitted.toast[1].timeoutMs > 1600

\* C21 as stated: handleCommandResult never changes the pending id, reports
\* an acceptance for every result of status 'sent' and a failure for every
\* result of status 'error'.
C21_EveryResultIsReported ==
    [][ lastCall'.op = "handleCommandResult" =>
          /\ lastCommandId' = lastCommandId
          /\ lastCall'.result.status = "sent" => C21_AcceptanceReported'
          /\ lastCall'.result.status = "error" => C21_FailureReported'
      ]_vars

\* C21, amended: handleCommandResult never changes the pending id, reports
\* an acceptance for every result of action 'send_command' and status 'sent'
\* and a failure for every result of action 'send_command' and status
\* 'error'.
C21_SendCommandResultIsReported ==
    [][ lastCall'.op = "handleCommandResult" =>
          /\ lastCommandId' = lastCommandId
          /\ (lastCall'.result.action = "send_command"
              /\ lastCall'.result.status = "sent") => C21_AcceptanceReported'
          /\ (lastCall'.result.action = "send_command"
              /\ lastCall'.result.status = "error") => C21_FailureReported'
      ]_vars

\* C21 witness: a command failed while command 3 was pending, and command 3
\* is still pending.
C21_Witness ==
    /\ IsCommandResultCall
    /\ lastCall.result.action = "send_command"
    /\ lastCall.result.status = "error"
    /\ lastCommandId = Pending(Num(3))
    /\ C21_FailureReported
    /\ emitted.toast[1].timeoutMs = 3000

\* The 'no data' state has been rendered by the call: a clearing call for
\* chart series 0 and the status 'No active occupancy'.
NoDataRendered ==
    /\ 0 \in ClearedSeries(emitted.chart)
    /\ emitted.status = <<[mode |-> "info", message |-> "No active occupancy"]>>

\* What C22 and its amended form share.  The flag is false after init; a
\* suppressed frame sets it and an accepted frame resets it; a rejected frame
\* and clearTargetVisualization leave it as it was; and a suppressed frame
\* renders the 'no data' state exactly when the flag was false, making no
\* chart call and emitting no status otherwise.
C22_FlagFollowsFrames ==
    /\ IsSuppressedFrame(lastCall') =>
          /\ targetsSuppressedByGate'
          /\ NoDataRendered' <=> ~targetsSuppressedByGate
          /\ targetsSuppressedByGate =>
                (emitted'.chart = <<>> /\ emitted'.status = <<>>)
    /\ IsAcceptedFrame(lastCall') => ~targetsSuppressedByGate'
    /\ (IsRejectedFrame(lastCall') \/ lastCall'.op = "clearTargetVisualization")
          => targetsSuppressedByGate' = targetsSuppressedByGate

\* C22 as stated: the flag is true exactly when the most recently handled
\* frame was a suppressed one, so only handled frames change it, and a
\* suppressed frame renders the 'no data' state exactly when no suppressed
\* frame was handled since the last accepted frame or since init.
C22_FlagIsLastFrameSuppressed ==
    [][ /\ C22_FlagFollowsFrames
        /\ lastCall'.op = "resetHistory"
              => targetsSuppressedByGate' = targetsSuppressedByGate
      ]_vars

\* C22, amended: resetHistory resets the flag too, so the flag is true
\* exactly when the most recent of the handled frames and resetHistory calls
\* was a suppressed frame, and a suppressed frame renders the 'no data' state
\* exactly when no suppressed frame was handled since the last accepted
\* frame, the last resetHistory or init.
C22_FlagIsLastFrameSuppressedSinceReset ==
    [][ /\ C22_FlagFollowsFrames
        /\ lastCall'.op = "resetHistory" => ~targetsSuppressedByGate'
      ]_vars

\* C22 witness: a suppressed frame that followed a suppressed frame has
\* rendered nothing, and the flag is set.
C22_Witness ==
    /\ IsSuppressedFrame(lastCall)
    /\ targetsSuppressedByGate
    /\ lastCall.ret = "true"
    /\ emitted.chart = <<>>
    /\ emitted.status = <<>>
    /\ emitted.gate = 1

\* C23: an accepted frame makes at most one chart call.  With isEditing and
\* isInteracting both true it makes none and returns true; with isEditing
\* true and isInteracting false it makes one restyle of the series 0 and 1;
\* with isEditing false it makes one react with two series and the layout of
\* getLayoutFn, whatever isInteracting is.
C23_ChartCallByFlags ==
    IsAcceptedFrame(lastCall) =>
        LET env == lastCall.env
        IN  /\ Len(emitted.chart) <= 1
            /\ (env.isEditing /\ env.isInteracting) =>
                  (emitted.chart = <<>> /\ lastCall.ret = "true")
            /\ (env.isEditing /\ ~env.isInteracting) =>
                  /\ Len(emitted.chart) = 1
                  /\ emitted.chart[1].kind = "restyle"
                  /\ emitted.chart[1].series = <<0, 1>>
            /\ ~env.isEditing =>
                  /\ Len(emitted.chart) = 1
                  /\ emitted.chart[1].kind = "react"
                  /\ Len(emitted.chart[1].series) = 2
                  /\ emitted.chart[1].layout = "getLayoutFn()"

\* C23 witness: a frame accepted while the user edits without interacting
\* has been pushed with one restyle.
C23_Witness ==
    /\ IsAcceptedFrame(lastCall)
    /\ lastCall.env.isEditing
    /\ ~lastCall.env.isInteracting
    /\ lastCall.msg.payload.targets # <<>>
    /\ Len(emitted.chart) = 1
    /\ emitted.chart[1].kind = "restyle"
    /\ lastCall.ret = "true"

\* The targets of a frame as handleNewData reads them.
FrameTargetsOf(call) ==
    IF call.msg.payload.targetsIsArray
    THEN MapSeq(normalizeTarget, call.msg.payload.targets) ELSE <<>>

\* One row per target, in the order of the targets.
RowsOf(targets) ==
    LET F[i \in 0..Len(targets)] ==
            IF i = 0 THEN "" ELSE F[i - 1] \o TargetRow(targets[i])
    IN  F[Len(targets)]

\* C24: after an accepted frame that returned true, whatever isEditing and
\* isInteracting were, the call has written the table and the table holds
\* the row 'Scanning for motion...' when the frame has no target, and
\* otherwise one row per target of the frame in frame order.
C24_TableReflectsFrame ==
    (IsAcceptedFrame(lastCall) /\ lastCall.ret = "true") =>
        /\ emitted.table # <<>>
        /\ emitted.table[Len(emitted.table)] =
              IF FrameTargetsOf(lastCall) = <<>>
              THEN "<tr><td colspan=\"5\" class=\"no-data\">Scanning for motion...</td></tr>"
              ELSE RowsOf(FrameTargetsOf(lastCall))

(***************************************************************************)
(* The table rows of single-target frames, for targets on both sides of    *)
(* the doppler thresholds and of the primary id.                           *)
(***************************************************************************)
\* Raw targets: dop around -10 and 10, with 10.5 rounding to 11 and a dop
\* that is not a number; ids -1, 0, 1, 2 and an id that is not a number.
RowDops == {Num(-11), Num(-10), Num(-9), Num(0), Num(9), Num(10), Half(21), Num(11),
            NotFinite}
RowIds == {Num(-1), Num(0), Num(1), Num(2), NotFinite}
RowTargets ==
    { [id |-> id, x |-> Num(77), y |-> Num(44), z |-> Num(-16), dop |-> dop] :
        id \in RowIds, dop \in RowDops }

\* Frames of one target each, accepted and pushed with a full redraw.
RowCalls ==
    { [PassingCall EXCEPT !.msg.payload.targets = <<t>>] : t \in RowTargets }

InitRows ==
    /\ InitState
    /\ limits = DEFAULT_LIMITS
    /\ historyLength = DefaultHistoryLength

NextRows ==
    \/ \E c \in RowCalls : handleNewData(c.msg, c.currentTopic, c.env)
    \/ resetHistory

SpecRows == InitRows /\ [][NextRows]_vars

\* The labels of a row as C25 gives them.
C25_MotionLabel(dop) ==
    IF dop > 10 THEN "Moving" ELSE IF dop < -10 THEN "Approaching" ELSE "Stationary"
C25_IdTag(id) == IF id = 1 THEN "Primary" ELSE "Secondary"

\* The row of a target with a motion label and an id tag.
C25_Row(target, motion, tag) ==
    LET dopClass == CASE motion = "Moving" -> "doppler-moving"
                      [] motion = "Approaching" -> "doppler-approaching"
                      [] OTHER -> "doppler-stationary"
        targetClass == IF tag = "Primary" THEN "target-primary" ELSE "target-secondary"
    IN  "<tr><td class=\"target-id-cell\"><span class=\"target-id-tag " \o targetClass
        \o "\"><span class=\"target-id-dot\"></span>D" \o ToString(target.id)
        \o " (" \o tag \o ")</span></td><td class=\"target-num\">" \o ToString(target.x)
        \o "</td><td class=\"target-num\">" \o ToString(target.y)
        \o "</td><td class=\"target-num\">" \o ToString(target.z)
        \o "</td><td class=\"doppler-cell\"><span class=\"doppler-badge " \o dopClass
        \o "\">" \o motion \o "</span></td></tr>"

\* C25: the row that an accepted frame of one target writes carries the
\* motion label 'Moving' when the target's dop is over 10, 'Approaching' when
\* it is under -10 and 'Stationary' otherwise, 10 and -10 included, and the id
\* tag 'Primary' when the id is 1 and 'Secondary' for every other id.
C25_RowLabels ==
    (IsAcceptedFrame(lastCall) /\ Len(FrameTargetsOf(lastCall)) = 1) =>
        LET target == FrameTargetsOf(lastCall)[1]
        IN  /\ Len(emitted.table) = 2
            /\ emitted.table[2] =
                  C25_Row(target, C25_MotionLabel(target.dop), C25_IdTag(target.id))

\* C25 witness: the row of a target of id -1 and dop 10 is 'Secondary' and
\* 'Stationary'.
C25_Witness ==
    /\ IsAcceptedFrame(lastCall)
    /\ lastCall.msg.payload.targets =
          <<[id |-> Num(-1), x |-> Num(77), y |-> Num(44), z |-> Num(-16), dop |-> Num(10)]>>
    /\ emitted.table[2] =
          "<tr><td class=\"target-id-cell\"><span class=\"target-id-tag target-secondary\">"
          \o "<span class=\"target-id-dot\"></span>D-1 (Secondary)</span></td>"
          \o "<td class=\"target-num\">77</td><td class=\"target-num\">44</td>"
          \o "<td class=\"target-num\">-16</td><td class=\"doppler-cell\">"
          \o "<span class=\"doppler-badge doppler-stationary\">Stationary</span></td></tr>"

\* The places of the flattened arrays that the trail of id and its sentinel
\* take when the trail starts after place start.
RunPlaces(start, id) == (start + 1)..(start + Len(targetHistory[id]) + 1)

\* C26: the arrays historyX and historyY of the chart call of an accepted
\* frame have the same length and null at the same places; every trail of
\* the history is in them as one run, oldest point first, followed by a
\* null; the runs with their nulls do not overlap and fill the arrays, so a
\* null lies between the points of any two targets.
C26_TrailsAreFlattenedApart ==
    (IsAcceptedFrame(lastCall) /\ emitted.chart # <<>>) =>
        LET historyX == emitted.chart[1].data.historyX
            historyY == emitted.chart[1].data.historyY
            ids == DOMAIN targetHistory
        IN  /\ Len(historyX) = Len(historyY)
            /\ \A k \in 1..Len(historyX) : historyX[k] = Null <=> historyY[k] = Null
            /\ \E start \in [ids -> 0..Len(historyX)] :
                  /\ \A id \in ids :
                        /\ RunPlaces(start[id], id) \subseteq 1..Len(historyX)
                        /\ \A k \in 1..Len(targetHistory[id]) :
                              /\ historyX[start[id] + k] = Some(targetHistory[id][k].x)
                              /\ historyY[start[id] + k] = Some(targetHistory[id][k].y)
                        /\ historyX[start[id] + Len(targetHistory[id]) + 1] = Null
                  /\ \A id, other \in ids :
                        id # other =>
                           RunPlaces(start[id], id) \cap RunPlaces(start[other], other) = {}
                  /\ UNION {RunPlaces(start[id], id) : id \in ids} = 1..Len(historyX)

\* C26 witness: two targets with trails of two points each have been pushed
\* to the chart.
C26_Witness ==
    /\ IsAcceptedFrame(lastCall)
    /\ emitted.chart # <<>>
    /\ Cardinality(DOMAIN targetHistory) = 2
    /\ \A id \in DOMAIN targetHistory : Len(targetHistory[id]) = 2
    /\ Len(emitted.chart[1].data.historyX) = 6
    /\ emitted.chart[1].data.historyX[3] = Null
    /\ emitted.chart[1].data.historyX[4] # Null

(***************************************************************************)
(* Claims about the banner of the command tracker, under SpecBanner.       *)
(***************************************************************************)
\* A step that shows a banner: it stores the id of a new timeout.
BannerShown == hideZoneStatusTimer' # hideZoneStatusTimer

\* C27: at most one timeout of the banner is scheduled at any moment, it is
\* the one whose id hideZoneStatusTimer holds and it was scheduled by the
\* banner shown last; the timeout that hides a banner was scheduled by that
\* banner and not by one shown before it; and unless banners are shown again
\* and again, the banner is hidden in the end and stays hidden.
C27_OneHideTimerOfLatestBanner ==
    /\ [](/\ Cardinality(timers) <= 1
          /\ \A t \in timers : t.latest /\ t.id = hideZoneStatusTimer)
    /\ [][lastCall'.op = "hideZoneStatusTimeout" => lastCall'.timer.latest]_vars
    /\ ([]<><<BannerShown>>_vars \/ <>[](zoneStatus.display # "block"))

\* C27 witness: a second banner is up, its timeout is the only one scheduled
\* and has another id than the timeout of the first banner.
C27_Witness ==
    /\ lastCall.op = "handleInterferenceZones"
    /\ zoneStatus.display = "block"
    /\ zoneStatus.text = "Interference cleared: zones reset."
    /\ hideZoneStatusTimer = 2
    /\ timers = {Timer(2, TRUE)}

(***************************************************************************)
(* The two steps that normalizeZoneConfig applies to the sorted pair of an *)
(* axis, each on its own: clamping both ends (lines 171-177) and           *)
(* enforceMinSpan (lines 183-187).                                         *)
(***************************************************************************)
AxisNames == {"x", "y", "z"}
AxisMinOf(axis) ==
    CASE axis = "x" -> limits.xMin [] axis = "y" -> limits.yMin [] OTHER -> limits.zMin
AxisMaxOf(axis) ==
    CASE axis = "x" -> limits.xMax [] axis = "y" -> limits.yMax [] OTHER -> limits.zMax

\* The pairs that reach the two steps: integers, sorted by sortPair.
SortedPairs == {p \in (-MaxRaw..MaxRaw) \X (-MaxRaw..MaxRaw) : p[1] <= p[2]}

ClampPairCall ==
    /\ FirstCall
    /\ \E pair \in SortedPairs, axis \in AxisNames :
        /\ lastCall' = [op |-> "clampPair", pair |-> pair,
                        boundMin |-> AxisMinOf(axis), boundMax |-> AxisMaxOf(axis),
                        ret |-> <<clamp(pair[1], AxisMinOf(axis), AxisMaxOf(axis)),
                                  clamp(pair[2], AxisMinOf(axis), AxisMaxOf(axis))>>]
        /\ emitted' = NoEmissions
        /\ UNCHANGED <<zoneVars, stateVars, tabVars>>

EnforceMinSpanCall ==
    /\ FirstCall
    /\ \E pair \in SortedPairs, axis \in AxisNames :
        /\ lastCall' = [op |-> "enforceMinSpan", minVal |-> pair[1], maxVal |-> pair[2],
                        boundMin |-> AxisMinOf(axis), boundMax |-> AxisMaxOf(axis),
                        minSpan |-> limits.minSpan,
                        ret |-> enforceMinSpan(pair[1], pair[2], AxisMinOf(axis),
                                               AxisMaxOf(axis), limits.minSpan)]
        /\ emitted' = NoEmissions
        /\ UNCHANGED <<zoneVars, stateVars, tabVars>>

NextAxis ==
    \/ ClampPairCall
    \/ EnforceMinSpanCall

SpecAxis == InitGeometry /\ [][NextAxis]_vars

(***************************************************************************)
(* Claims about the steps on one axis, under SpecAxis.                     *)
(***************************************************************************)
IsEnforceCall == lastCall.op = "enforceMinSpan"
IsClampPairCall == lastCall.op = "clampPair"

\* The pair that C28 gives for a pair narrower than minSpan.
C28_Widened(min, max, floor, ceiling, minSpan) ==
    LET c == ((min + max) + 1) \div 2
        centred == <<c - (minSpan \div 2), (c - (minSpan \div 2)) + minSpan>>
        raised == IF centred[1] < floor THEN <<floor, floor + minSpan>> ELSE centred
    IN  IF raised[2] > ceiling THEN <<ceiling - minSpan, ceiling>> ELSE raised

\* What C28 and its amended form share: a pair at least minSpan wide is
\* returned as it is, and a narrower pair is widened as C28 says.
C28_ResultOfEnforcement ==
    LET c == lastCall
    IN  IF c.maxVal - c.minVal >= c.minSpan
        THEN c.ret = [minVal |-> c.minVal, maxVal |-> c.maxVal]
        ELSE <<c.ret.minVal, c.ret.maxVal>> =
                C28_Widened(c.minVal, c.maxVal, c.boundMin, c.boundMax, c.minSpan)

C28_SpanAndBounds ==
    /\ lastCall.ret.maxVal - lastCall.ret.minVal >= lastCall.minSpan
    /\ lastCall.boundMin <= lastCall.ret.minVal
    /\ lastCall.ret.maxVal <= lastCall.boundMax

\* C28 as stated: enforceMinSpan returns what C28_ResultOfEnforcement says,
\* and on an axis at least minSpan wide the result is at least minSpan wide
\* and inside the axis bounds.
C28_EnforcedPairInBounds ==
    IsEnforceCall =>
        /\ C28_ResultOfEnforcement
        /\ lastCall.boundMax - lastCall.boundMin >= lastCall.minSpan => C28_SpanAndBounds

\* C28, amended: the same, the result being inside the axis bounds when the
\* pair given was narrower than minSpan or was inside the bounds.
C28_EnforcedPairInBoundsIfWidened ==
    IsEnforceCall =>
        /\ C28_ResultOfEnforcement
        /\ ( /\ lastCall.boundMax - lastCall.boundMin >= lastCall.minSpan
             /\ \/ lastCall.maxVal - lastCall.minVal < lastCall.minSpan
                \/ (lastCall.boundMin <= lastCall.minVal
                    /\ lastCall.maxVal <= lastCall.boundMax) )
           => C28_SpanAndBounds

\* C28 witness: on an axis from -2 to 2 with minSpan 3 the pair (-1, 0), of
\* centre -0.5, is widened around 0 and becomes (-1, 2).
C28_Witness ==
    /\ IsEnforceCall
    /\ lastCall.minVal = -1 /\ lastCall.maxVal = 0
    /\ lastCall.boundMin = -2 /\ lastCall.boundMax = 2
    /\ lastCall.minSpan = 3
    /\ lastCall.ret = [minVal |-> -1, maxVal |-> 2]

\* C30 as stated: there is a sorted pair and an axis with axisMin <= axisMax
\* for which clamping both ends gives a pair with min > max.
C30_ClampingCanInvert ==
    \E pair \in SortedPairs, axis \in AxisNames :
        /\ AxisMinOf(axis) <= AxisMaxOf(axis)
        /\ clamp(pair[1], AxisMinOf(axis), AxisMaxOf(axis))
              > clamp(pair[2], AxisMinOf(axis), AxisMaxOf(axis))

\* C30, amended: clamping both ends of a sorted pair into the bounds of an
\* axis with axisMin <= axisMax never gives a pair with min > max, so the
\* sort after it changes nothing; a pair whose max is below the axis minimum
\* becomes the axis minimum twice.
C30_ClampingKeepsOrder ==
    (IsClampPairCall /\ lastCall.boundMin <= lastCall.boundMax) =>
        /\ lastCall.ret[1] <= lastCall.ret[2]
        /\ sortPair(lastCall.ret[1], lastCall.ret[2]) = lastCall.ret
        /\ lastCall.pair[2] < lastCall.boundMin
              => lastCall.ret = <<lastCall.boundMin, lastCall.boundMin>>

\* C30 witness: a pair below the axis minimum has been clamped.
C30_Witness ==
    /\ IsClampPairCall
    /\ lastCall.pair = <<-3, -1>>
    /\ lastCall.boundMin = 0
    /\ lastCall.boundMax = 2
    /\ lastCall.ret = <<0, 0>>

\* The names validateZoneConfig gives the axes in its error strings, with
\* the bounds of each.
C29_NamedAxes ==
    { [name |-> "Width", lo |-> limits.xMin, hi |-> limits.xMax],
      [name |-> "Depth", lo |-> limits.yMin, hi |-> limits.yMax],
      [name |-> "Height", lo |-> limits.zMin, hi |-> limits.zMax] }

ErrorsOf(result) == {result.errors[i] : i \in 1..Len(result.errors)}

\* C29: validateZoneConfig reports '<axis> must stay within ...' only for an
\* axis whose configured range is narrower than minSpan, and only when
\* allowZeroSpan is not true; it never reports '<axis> span must be at least
\* ...'; and valid is true exactly when there is no error.
C29_ErrorsOnlyOnNarrowAxes ==
    IsValidateCall =>
        /\ \A a \in C29_NamedAxes :
              /\ (a.name \o " must stay within " \o ToString(a.lo) \o " to "
                    \o ToString(a.hi) \o " cm.") \in ErrorsOf(lastCall.ret)
                 => (a.hi - a.lo < limits.minSpan /\ ~AllowZeroSpanOf(lastCall.options))
              /\ (a.name \o " span must be at least " \o ToString(limits.minSpan)
                    \o " cm.") \notin ErrorsOf(lastCall.ret)
        /\ lastCall.ret.valid <=> lastCall.ret.errors = <<>>

\* C29 witness: on the axes y from 0 to 1 and z from -1 to 1 with minSpan 3
\* a config has been rejected for its depth and for its height only.
C29_Witness ==
    /\ IsValidateCall
    /\ limits = NarrowLimits
    /\ ~lastCall.ret.valid
    /\ lastCall.ret.errors = <<"Depth must stay within 0 to 1 cm.",
                               "Height must stay within -1 to 1 cm.">>

(***************************************************************************)
(* Further claims about the state module, under SpecChanges.               *)
(***************************************************************************)
IsSyncConfigCall == lastCall.op = "syncConfig"

\* C31: syncConfig with an object payload records every key of the payload
\* as the latest known value, leaves the input of every parameter with a
\* pending change as it is, and leaves the pending changes as they are;
\* syncConfig with a payload that is not an object changes no state.
C31_SyncConfigRecordsAndKeepsPending ==
    [][ lastCall'.op = "syncConfig" =>
          LET payload == lastCall'.configPayload
          IN  /\ pendingChanges' = pendingChanges
              /\ IF payload.kind = "object"
                 THEN /\ \A key \in DOMAIN payload.entries :
                            /\ key \in DOMAIN latestConfig'
                            /\ latestConfig'[key] = payload.entries[key]
                      /\ \A p \in Params :
                            HasKey(pendingChanges, p) => inputs'[p] = inputs[p]
                 ELSE /\ emitted' = NoEmissions
                      /\ <<latestConfig', inputElements', socket', inputs', dirtyUi'>>
                         = <<latestConfig, inputElements, socket, inputs, dirtyUi>>
      ]_vars

\* C31 witness: the device reported 101 for the brightness and 21 for the
\* color while 12 was staged for the brightness: both values are recorded,
\* the brightness input still shows the staged 12, the color input shows 21
\* and the staged change is still pending.
C31_Witness ==
    /\ IsSyncConfigCall
    /\ lastCall.configPayload.kind = "object"
    /\ DOMAIN lastCall.configPayload.entries = Params
    /\ latestConfig = [p \in Params |-> IF p = BrightnessParam
                                        THEN NumberValue("101") ELSE NumberValue("21")]
    /\ pendingChanges = <<[param |-> BrightnessParam, value |-> NumberValue("12")]>>
    /\ inputs[BrightnessParam] = NumberValue("12")
    /\ inputs[ColorParam] = NumberValue("21")

\* Whether two values are the same to the comparison of the state module:
\* as numbers when one of them is a number and both are numerals, as text
\* otherwise.
C32_Numerals == {"12", "21", "101", "170"}
C32_SameValue(a, b) ==
    IF /\ a.type = "number" \/ b.type = "number"
       /\ (a.type = "number" \/ a.str \in C32_Numerals \/ a.str = "")
       /\ (b.type = "number" \/ b.str \in C32_Numerals \/ b.str = "")
    THEN (IF a.str = "" THEN "0" ELSE a.str) = (IF b.str = "" THEN "0" ELSE b.str)
    ELSE a.str = b.str

\* C32: after queueChange(param, value) with a non-empty param, param is
\* pending, with that value, if and only if no baseline value is known for
\* it or the value differs from the baseline; in particular a pending change
\* of the parameter is removed when the value equals the known baseline.
\* queueChange with an empty param changes nothing.
C32_PendingIffDiffersFromBaseline ==
    [][ lastCall'.op = "queueChange" =>
          LET param == lastCall'.param
              value == lastCall'.value
          IN  IF param = ""
              THEN /\ emitted' = NoEmissions
                   /\ <<pendingChanges', latestConfig', inputElements', socket',
                        inputs', dirtyUi'>>
                      = <<pendingChanges, latestConfig, inputElements, socket,
                          inputs, dirtyUi>>
              ELSE LET known == param \in DOMAIN latestConfig
                       differs == ~known \/ ~C32_SameValue(latestConfig[param], value)
                   IN  /\ HasKey(pendingChanges', param) <=> differs
                       /\ differs => MapGet(pendingChanges', param) = value
                       /\ \A other \in Params \ {param} :
                             /\ HasKey(pendingChanges', other)
                                <=> HasKey(pendingChanges, other)
                             /\ HasKey(pendingChanges, other) =>
                                   MapGet(pendingChanges', other)
                                   = MapGet(pendingChanges, other)
      ]_vars

\* C32 witness: the device reported the number 12 for the brightness and the
\* text "12" was staged for it: no change of the brightness is pending.
C32_Witness ==
    /\ lastCall.op = "queueChange"
    /\ lastCall.param = BrightnessParam
    /\ lastCall.value = StringValue("12")
    /\ BrightnessParam \in DOMAIN latestConfig
    /\ latestConfig[BrightnessParam] = NumberValue("12")
    /\ BrightnessParam \in DOMAIN recorded
    /\ ~HasKey(pendingChanges, BrightnessParam)
    /\ dirtyUi.text = "No pending changes"

(***************************************************************************)
(* Further claims about the render coordinator, under SpecFrames.          *)
(***************************************************************************)
\* What C33 and its amended form share: while the suppression flag is true
\* the target history is empty.
C33_SuppressedHistoryIsEmpty ==
    targetsSuppressedByGate => targetHistory = NoHistory

\* An accepted frame that directly follows a suppression.
C33_AcceptedAfterSuppression ==
    targetsSuppressedByGate /\ IsAcceptedFrame(lastCall')

\* C33 as stated: whenever the suppression flag is true the target history
\* is empty, and the first accepted frame after a suppression gives every
\* target of the frame a trail of exactly one point.
C33_FirstFrameAfterSuppressionOnePoint ==
    /\ []C33_SuppressedHistoryIsEmpty
    /\ [][ C33_AcceptedAfterSuppression =>
              /\ DOMAIN targetHistory' = FrameIdsOf(lastCall')
              /\ \A id \in FrameIdsOf(lastCall') : Len(targetHistory'[id]) = 1
       ]_vars

\* C33 amended: whenever the suppression flag is true the target history is
\* empty, and the first accepted frame after a suppression gives every
\* target id of the frame a trail made only of points of that frame, the last
\* min(n, historyLength) of the positions of the n targets of the frame that
\* carry the id: exactly one point when the frame holds the id once and
\* historyLength >= 1.
C33_FirstFrameAfterSuppressionOwnPoints ==
    /\ []C33_SuppressedHistoryIsEmpty
    /\ [][ C33_AcceptedAfterSuppression =>
              /\ DOMAIN targetHistory' = FrameIdsOf(lastCall')
              /\ \A id \in FrameIdsOf(lastCall') :
                    LET points == PositionsOf(FrameTargetsOf(lastCall'), id)
                        n == Len(points)
                    IN  /\ targetHistory'[id] = LastN(points, Min2(n, historyLength))
                        /\ (n = 1 /\ historyLength >= 1) =>
                              Len(targetHistory'[id]) = 1
       ]_vars

\* C33 witness: the most recent call was the first suppressed frame of a
\* suppression: it made the two clearing calls and emitted the status, and
\* the flag is set while the history is empty.
C33_Witness ==
    /\ IsSuppressedFrame(lastCall)
    /\ emitted.status = <<[mode |-> "info", message |-> "No active occupancy"]>>
    /\ Len(emitted.chart) = 2
    /\ targetsSuppressedByGate
    /\ targetHistory = NoHistory

(***************************************************************************)
(* The motion label of a target on the chart and in the table, under       *)
(* SpecRows.                                                               *)
(***************************************************************************)
MotionLabels == {"Moving", "Approaching", "Stationary"}

\* An accepted frame whose targets were pushed to the chart and written to
\* the table.
C34_PushedAndTabled ==
    /\ IsAcceptedFrame(lastCall)
    /\ Len(emitted.chart) = 1
    /\ Len(emitted.table) = Len(FrameTargetsOf(lastCall)) + 1
    /\ Len(FrameTargetsOf(lastCall)) >= 1

\* The motion labels that the marker text of the i-th target can be read
\* to carry, and those that its table row can be read to carry.
C34_ChartLabels(i) ==
    LET target == FrameTargetsOf(lastCall)[i]
    IN  { label \in MotionLabels :
            emitted.chart[1].data.text[i]
               = "D" \o ToString(target.id) \o " (" \o C25_IdTag(target.id) \o ")<br>"
                 \o label }
C34_RowLabels(i) ==
    LET target == FrameTargetsOf(lastCall)[i]
    IN  { label \in MotionLabels :
            emitted.table[i + 1]
               = emitted.table[i] \o C25_Row(target, label, C25_IdTag(target.id)) }

\* C34 as stated: for every target of an accepted frame that is pushed to the
\* chart, the motion label of the marker text is the motion label of the
\* target's table row, whatever the dop.
C34_ChartLabelIsRowLabel ==
    C34_PushedAndTabled =>
       \A i \in 1..Len(FrameTargetsOf(lastCall)) :
          /\ Cardinality(C34_ChartLabels(i)) = 1
          /\ C34_ChartLabels(i) = C34_RowLabels(i)

\* C34 amended: for every target of an accepted frame that is pushed to the
\* chart and written to the table, the motion label of the marker text is
\* the motion label of the target's table row when dop >= -10; when
\* dop < -10 the marker text says 'Moving' and the row says 'Approaching'.
C34_ChartLabelIsRowLabelUnlessApproaching ==
    C34_PushedAndTabled =>
       \A i \in 1..Len(FrameTargetsOf(lastCall)) :
          IF FrameTargetsOf(lastCall)[i].dop >= -10
          THEN /\ Cardinality(C34_ChartLabels(i)) = 1
               /\ C34_ChartLabels(i) = C34_RowLabels(i)
          ELSE /\ C34_ChartLabels(i) = {"Moving"}
               /\ C34_RowLabels(i) = {"Approaching"}

\* C34 witness: a target of dop 11 was pushed and written, 'Moving' on the
\* chart and in the table.
C34_Witness ==
    /\ C34_PushedAndTabled
    /\ FrameTargetsOf(lastCall)[1].dop = 11
    /\ emitted.chart[1].data.text[1] = "D1 (Primary)<br>Moving"
    /\ C34_RowLabels(1) = {"Moving"}

(***************************************************************************)
(* The pending command and its completion reports, under SpecTracker.      *)
(***************************************************************************)
\* The number of completion reports of all the accepted commands.
RECURSIVE ReportsOf(_)
ReportsOf(calls) ==
    IF calls = <<>> THEN 0 ELSE Head(calls).reports + ReportsOf(Tail(calls))

\* A step that is a completion report: handleInterferenceZones found an id
\* pending.
C35_Reports == lastCall'.op = "handleInterferenceZones" /\ lastCommandId # Idle

\* C35: at most one command is pending, the most recently accepted one while
\* it has no completion report; a completion report is classified against
\* the id of the most recently accepted setPendingCommand call and leaves
\* nothing pending; a call that was followed by another accepted call never
\* receives a completion report afterwards, no call receives two, and the
\* completion reports are never more than the accepted calls.
C35_ReportsGoToLatestCommand ==
    /\ [](LET calls == issued.calls
              n == Len(calls)
          IN  /\ lastCommandId # Idle =>
                    /\ n >= 1
                    /\ lastCommandId = Pending(calls[n].id)
                    /\ calls[n].reports = 0
              /\ \A i \in 1..n : calls[i].reports <= 1
              /\ ReportsOf(calls) <= n)
    /\ [][ /\ \A i \in 1..Len(issued.calls) :
                i < Len(issued.calls') => issued.calls'[i] = issued.calls[i]
           /\ C35_Reports =>
                 LET last == issued.calls[Len(issued.calls)]
                     outcome == InterferenceOutcome(last.id,
                                                    ZoneCountOf(lastCall'.zones))
                 IN  /\ emitted'.log = <<[message |-> outcome.message,
                                          type |-> outcome.type]>>
                     /\ issued.calls'[Len(issued.calls)].reports = 1
                     /\ lastCommandId' = Idle
       ]_vars

\* C35 witness: command 1 was accepted, command 3 was accepted before any
\* result arrived, and the one completion report, with no zone left, was the
\* report of command 3.
C35_Witness ==
    /\ lastCall.op = "handleInterferenceZones"
    /\ issued.calls = <<[id |-> Num(1), reports |-> 0], [id |-> Num(3), reports |-> 1]>>
    /\ emitted.log = <<[message |-> "Interference cleared: zones reset.",
                        type |-> "saved"]>>
    /\ lastCommandId = Idle

(***************************************************************************)
(* The entry points of the zones module interleaved, under SpecZones.      *)
(***************************************************************************)
RenderOps == {"handleNewData", "resetHistory", "clearTargetVisualization"}
TrackerOps == {"setPendingCommand", "handleInterferenceZones", "clearPendingCommand",
               "handleCommandResult"}
GeometryOps == {"normalizeZoneConfig", "validateZoneConfig", "buildAreaPayload"}

\* C36: in any interleaving of the entry points, a call of handleNewData,
\* resetHistory or clearTargetVisualization leaves the pending command id as
\* it is; a call of setPendingCommand, handleInterferenceZones,
\* clearPendingCommand or handleCommandResult leaves the target history and
\* the suppression flag as they are; a call of normalizeZoneConfig,
\* validateZoneConfig or buildAreaPayload leaves all three as they are and
\* emits nothing.
C36_TrackerAndRendererApart ==
    [][ /\ lastCall'.op \in RenderOps => lastCommandId' = lastCommandId
        /\ lastCall'.op \in TrackerOps =>
              /\ targetHistory' = targetHistory
              /\ targetsSuppressedByGate' = targetsSuppressedByGate
        /\ lastCall'.op \in GeometryOps =>
              /\ lastCommandId' = lastCommandId
              /\ targetHistory' = targetHistory
              /\ targetsSuppressedByGate' = targetsSuppressedByGate
              /\ emitted' = NoEmissions
      ]_vars

\* C36 witness: a frame was accepted and drew a second point of its target
\* while command 1 was pending.
C36_Witness ==
    /\ IsAcceptedFrame(lastCall)
    /\ lastCommandId = Pending(Num(1))
    /\ \E id \in DOMAIN targetHistory : Len(targetHistory[id]) = 2

(***************************************************************************)
(* Frames without a targets array and targets without fields, under        *)
(* SpecFrames.                                                             *)
(***************************************************************************)
\* A field of a raw target as handleNewData has to read it: 0 for a field
\* that is missing or not a number.
C37_FieldOf(raw) ==
    IF raw = NotFinite THEN 0 ELSE MathRoundHalves(raw.twice)

\* The part of C37 that does not depend on the chart: an accepted frame
\* without a targets array emits 'Targets Visible: 0' and leaves no trail,
\* and an accepted frame with a targets array counts every target and reads
\* the missing fields of a target as 0.
C37_CountsAndDefaults ==
    IsAcceptedFrame(lastCall) =>
       LET payload == lastCall.msg.payload
       IN  IF ~payload.targetsIsArray
           THEN /\ emitted.status = <<[mode |-> "info", message |-> "Targets Visible: 0"]>>
                /\ targetHistory = NoHistory
           ELSE /\ emitted.status
                     = <<[mode |-> "info",
                          message |-> "Targets Visible: "
                                      \o ToString(Len(payload.targets))]>>
                /\ Len(FrameTargetsOf(lastCall)) = Len(payload.targets)
                /\ \A i \in 1..Len(payload.targets) :
                      FrameTargetsOf(lastCall)[i]
                         = [id |-> C37_FieldOf(payload.targets[i].id),
                            x |-> C37_FieldOf(payload.targets[i].x),
                            y |-> C37_FieldOf(payload.targets[i].y),
                            z |-> C37_FieldOf(payload.targets[i].z),
                            dop |-> C37_FieldOf(payload.targets[i].dop)]
                /\ DOMAIN targetHistory
                      = {C37_FieldOf(payload.targets[i].id) : i \in 1..Len(payload.targets)}

\* C37: an accepted frame whose payload has no targets array is a frame of
\* zero targets: the call returns true, emits 'Targets Visible: 0', leaves no
\* trail in the target history and writes the 'Scanning for motion...' row
\* to the table; a target whose fields are missing or not numbers is counted
\* and kept, with those fields read as 0.
C37_MissingTargetsIsEmptyFrame ==
    /\ C37_CountsAndDefaults
    /\ (IsAcceptedFrame(lastCall) /\ ~lastCall.msg.payload.targetsIsArray) =>
          /\ lastCall.ret = "true"
          /\ emitted.table = <<NoDataRow("Scanning for motion...")>>

(***************************************************************************)
(* Normalizing a normalized config, under SpecGeometry.                    *)
(***************************************************************************)
\* A normalized config given back as a raw config.
C38_AsRaw(config) ==
    [x_min |-> Num(config.x_min), x_max |-> Num(config.x_max),
     y_min |-> Num(config.y_min), y_max |-> Num(config.y_max),
     z_min |-> Num(config.z_min), z_max |-> Num(config.z_max)]

\* C38: for every raw config, every combination of allowZeroSpan and
\* clampToBounds and every axis configuration, the ones narrower than
\* minSpan included, normalizing the result of normalizeZoneConfig again
\* with the same options gives the same result.
C38_NormalizeIsIdempotent ==
    IsNormalizeCall =>
       normalizeZoneConfig(C38_AsRaw(lastCall.ret), lastCall.options) = lastCall.ret

\* C38 witness: on a y axis narrower than minSpan a raw pair was widened
\* beyond the axis, with the clamp and the minimum span in force.
C38_Witness ==
    /\ IsNormalizeCall
    /\ limits.yMax - limits.yMin < limits.minSpan
    /\ lastCall.options = [allowZeroSpan |-> "false", clampToBounds |-> "true"]
    /\ lastCall.ret.y_min < limits.yMin
    /\ lastCall.ret.y_max - lastCall.ret.y_min = limits.minSpan
    /\ lastCall.ret # normalizeZoneConfig(lastCall.rawConfig,
                                          [allowZeroSpan |-> "true",
                                           clampToBounds |-> "false"])

\* The pair of an axis after the sort and the clamp of normalizeZoneConfig,
\* before the minimum span is enforced.
C39_ClampedPair(rawMin, rawMax, lo, hi) ==
    LET a == IF rawMin.finite THEN MathRoundHalves(rawMin.twice) ELSE 0
        b == IF rawMax.finite THEN MathRoundHalves(rawMax.twice) ELSE 0
        low == Min2(a, b)
        high == Max2(a, b)
        Into(v) == IF v < lo THEN lo ELSE IF v > hi THEN hi ELSE v
    IN  [min |-> Into(low), max |-> Into(high)]

\* The axes of a normalizeZoneConfig call: the clamped pair and the pair of
\* the result.
C39_Axes ==
    LET raw == lastCall.rawConfig
        ret == lastCall.ret
    IN  { [given |-> C39_ClampedPair(raw.x_min, raw.x_max, limits.xMin, limits.xMax),
           min |-> ret.x_min, max |-> ret.x_max],
          [given |-> C39_ClampedPair(raw.y_min, raw.y_max, limits.yMin, limits.yMax),
           min |-> ret.y_min, max |-> ret.y_max],
          [given |-> C39_ClampedPair(raw.z_min, raw.z_max, limits.zMin, limits.zMax),
           min |-> ret.z_min, max |-> ret.z_max] }

C39_ClampsAndEnforces ==
    /\ IsNormalizeCall
    /\ lastCall.options.clampToBounds # "false"
    /\ lastCall.options.allowZeroSpan # "true"

\* C39: with clampToBounds not false and allowZeroSpan not true, on every
\* axis the interval of the result contains the sorted and clamped interval
\* of the input: min' <= min and max <= max'.
C39_EnforcementOnlyWidens ==
    C39_ClampsAndEnforces =>
       \A axis \in C39_Axes :
          /\ axis.min <= axis.given.min
          /\ axis.given.max <= axis.max

\* C39 witness: a clamped pair narrower than minSpan came back wider at both
\* ends.
C39_Witness ==
    /\ C39_ClampsAndEnforces
    /\ \E axis \in C39_Axes :
          /\ axis.given.max - axis.given.min < limits.minSpan
          /\ axis.given.min < axis.given.max
          /\ axis.min < axis.given.min
          /\ axis.given.max < axis.max

====
